---------------------------- MODULE Spec2Model ----------------------------
(***************************************************************************)
(* kutsche: one SMTP connection handled by SmtpServer::recv_mail /         *)
(* handle_mail_comm (src/src/smtp_server/mod.rs), the MailHandler          *)
(* callbacks it registers with the mailin session, and the e-mail          *)
(* construction of src/src/email.rs.                                       *)
(*                                                                         *)
(* Bytes are modelled as sequences of tokens: a token stands for one byte  *)
(* ("CR", "LF", ".", "@") or for a run of bytes without structure ("hi",   *)
(* "m1", "Subject:").  A line is what read_line returns: the tokens up to  *)
(* and including the next "LF", or what is left at end of stream.          *)
(***************************************************************************)
EXTENDS Naturals, Sequences, FiniteSets

VARIABLES
    listener,       \* SmtpServer: port, tls_config, starttls, implicit_tls
    pc,             \* position of the connection task in recv_mail / handle_mail_comm
    tls_active,     \* the stream the handler writes to is a TLS stream
    upgraded,       \* the handler is in its second (post STARTTLS) loop
    eof,            \* the client has closed its sending side
    last_response,  \* handle_mail_comm's last_response
    state,          \* the mailin session's state
    mail_handler,   \* MailHandler: from, to, msg_buf, received_mail (the result slot)
    returned,       \* what recv_mail returned (once pc = "done")
    io_error,       \* which I/O operation failed, "none" if none did
    lastCb,         \* history: the callback session.process invoked for the last line
    lastArg,        \* history: the mailbox that callback was given, if any; for
                    \* data_start, the buffer it found
    dataEnds,       \* history: number of data_end callbacks so far (capped)
    txTo,           \* history: the recipients accepted with 250 in the mail transaction
                    \* that is open, in order
    plainTo,        \* history: the recipients the handler held, all accepted in
                    \* plaintext, when the stream was upgraded by STARTTLS
    reDataPhase,    \* history: the client is sending ("data") or has just ended ("done")
                    \* a DATA section after a successful DATA_END
    plainSent,      \* history: a response was written to the plaintext stream
    tlsSent,        \* history: a response was written to the TLS stream
    flushed,        \* history: last_response has been written and flushed
    acked,          \* history: the code written and flushed in answer to DATA_END, 0 if none
    script,         \* history: progress of the client through the round-trip session
    scriptFrom,     \* history: the reverse path of the round-trip session
    scriptTo,       \* history: the forward path of the round-trip session
    scriptMid,      \* history: the id of the Message-ID header the client composed
    sent,           \* history: the message bytes the client has sent in this DATA phase
    main,           \* main(): position, bind loop index, smtp_servers, exit code
    server_tasks,   \* per bound listener: the accept loop and its conn_task_list
    conn_tasks,     \* connection tasks: recv_mail's result and the dispatch loop
    dest_map,       \* Config.dest_map: recipient -> destination (a base directory)
    files,          \* the file system: path -> bytes of the file at that path
    write_log,      \* history: the write_email calls made, in order of their start
    handshake,      \* a TLS handshake at the acceptor: the resolver's map, the client
                    \* hello, the key CertResolver::resolve returned, the outcome
    mapping,        \* Config::load_mapping: the mapping it is at, the path of its file
                    \* destination and what FileDestination::new returned for it
    sessions        \* concurrent connection tasks, each with its own buffer, handler,
                    \* session and result slot, and the lines its client has sent

conn_vars == <<listener, pc, tls_active, upgraded, eof, last_response, state,
               mail_handler, returned, io_error, lastCb, lastArg, dataEnds, reDataPhase,
               txTo, plainTo,
               plainSent, tlsSent, flushed, acked, script, scriptFrom, scriptTo, scriptMid, sent>>
main_vars == <<main, server_tasks>>
dispatch_vars == <<conn_tasks, dest_map, files, write_log>>
config_vars == <<handshake, mapping>>
process_vars == <<main_vars, dispatch_vars, config_vars, sessions>>

vars == <<conn_vars, process_vars>>

(***************************************************************************)
(* Bounds of the model.                                                    *)
(***************************************************************************)
MaxRcpt == 2        \* recipients the handler accumulates in one session
MaxData == 3        \* lines of one DATA section
MaxAddrs == 2       \* addresses in Config.local_addrs
MaxConns == 2       \* connections one listener accepts

(***************************************************************************)
(* Bytes, options.                                                         *)
(***************************************************************************)
CR == "CR"
LF == "LF"
CRLF == <<CR, LF>>

None == <<>>
Some(x) == <<x>>

ImplicitTlsPort == 465
Ports == {25, ImplicitTlsPort}

(***************************************************************************)
(* lettre::EmailAddress::new as used by mail and rcpt: accepts             *)
(* local@domain with both parts non-empty.                                 *)
(***************************************************************************)
EmailAddressNew(m) ==
    /\ Len(m) >= 3
    /\ Cardinality({i \in 1..Len(m) : m[i] = "@"}) = 1
    /\ m[1] # "@"
    /\ m[Len(m)] # "@"

A_X == <<"a", "@", "x">>
B_Y == <<"b", "@", "y">>
BAD == <<"@", "bad">>
MailFromBoxes == {A_X, BAD}
RcptToBoxes == {B_Y, A_X, BAD}

(***************************************************************************)
(* mailin responses.                                                       *)
(***************************************************************************)
Resp(c, a) == [code |-> c, action |-> a]
OK == Resp(250, "Reply")
BAD_MAILBOX == Resp(550, "Reply")
INVALID_CREDENTIALS == Resp(535, "Reply")
Custom(c) == Resp(c, "Reply")
GREETING == Resp(220, "Reply")
START_DATA == Resp(354, "Reply")
EMPTY_RESPONSE == Resp(0, "NoReply")
GOODBYE == Resp(221, "Close")
START_TLS == Resp(220, "UpgradeTls")
SYNTAX_ERROR == Resp(500, "Reply")
BAD_SEQUENCE_COMMANDS == Resp(503, "Reply")
PANIC == Resp(0, "Panic")
IsError(r) == r.code >= 400

(***************************************************************************)
(* crate::Error and Result<SmtpEmail, Error>.                              *)
(***************************************************************************)
Err(kind, msg) ==
    [kind |-> "Err", err |-> kind, msg |-> msg,
     from |-> None, to |-> <<>>, message_id |-> <<>>, raw |-> <<>>]
OkMail(from, to, id, raw) ==
    [kind |-> "Ok", err |-> "", msg |-> "",
     from |-> from, to |-> to, message_id |-> id, raw |-> raw]

\* impl From<io::Error> for Error
FromIoError == Err("SysIo", "io")

(***************************************************************************)
(* email.rs: Email::parse and SmtpEmail::new.  mail_parser is used as a    *)
(* function from bytes to headers: the header section is the lines before  *)
(* the first empty line; the message id is the value of the Message-ID     *)
(* header, absent when the value holds no id.                              *)
(***************************************************************************)
FirstLF(b) ==
    IF \E i \in 1..Len(b) : b[i] = LF
    THEN CHOOSE i \in 1..Len(b) : b[i] = LF /\ \A j \in 1..(i - 1) : b[j] # LF
    ELSE Len(b)

RECURSIVE SplitLines(_)
SplitLines(b) ==
    IF b = <<>> THEN <<>>
    ELSE <<SubSeq(b, 1, FirstLF(b))>> \o SplitLines(SubSeq(b, FirstLF(b) + 1, Len(b)))

IsBlank(l) == l = CRLF \/ l = <<LF>>

StripEol(l) ==
    IF Len(l) >= 2 /\ SubSeq(l, Len(l) - 1, Len(l)) = CRLF THEN SubSeq(l, 1, Len(l) - 2)
    ELSE IF Len(l) >= 1 /\ l[Len(l)] = LF THEN SubSeq(l, 1, Len(l) - 1)
    ELSE l

HeaderLines(b) ==
    LET ls == SplitLines(b)
        n == IF \E i \in 1..Len(ls) : IsBlank(ls[i])
             THEN (CHOOSE i \in 1..Len(ls) :
                      IsBlank(ls[i]) /\ \A j \in 1..(i - 1) : ~IsBlank(ls[j])) - 1
             ELSE Len(ls)
    IN SubSeq(ls, 1, n)

\* mail_parser::Message::parse
MessageParse(raw) == IF raw = <<>> THEN None ELSE Some(HeaderLines(raw))

IsMidLine(l) == Len(l) >= 1 /\ l[1] = "Message-ID:"

\* mail_parser::Message::get_message_id
GetMessageId(headers) ==
    IF \E i \in 1..Len(headers) : IsMidLine(headers[i])
    THEN LET i == CHOOSE k \in 1..Len(headers) :
                      IsMidLine(headers[k]) /\ \A j \in 1..(k - 1) : ~IsMidLine(headers[j])
             id == StripEol(Tail(headers[i]))
         IN IF id = <<>> THEN None ELSE Some(id)
    ELSE None

EmailParseAnyId(raw) ==
    IF MessageParse(raw) # None
    THEN IF \E i \in 1..Len(MessageParse(raw)[1]) : IsMidLine(MessageParse(raw)[1][i])
         THEN [ok |-> TRUE,
               message_id |-> StripEol(Tail(
                   (CHOOSE l \in {MessageParse(raw)[1][i] : i \in 1..Len(MessageParse(raw)[1])} :
                       IsMidLine(l)))),
               raw |-> raw, err |-> ""]
         ELSE [ok |-> FALSE, message_id |-> <<>>, raw |-> <<>>,
               err |-> "Missing message-id header."]
    ELSE [ok |-> FALSE, message_id |-> <<>>, raw |-> <<>>,
          err |-> "Could not parse RFC5322/RFC822 message."]

\* Email::parse
EmailParse(raw) ==
    IF MessageParse(raw) # None
    THEN IF GetMessageId(MessageParse(raw)[1]) # None
         THEN [ok |-> TRUE, message_id |-> GetMessageId(MessageParse(raw)[1])[1],
               raw |-> raw, err |-> ""]
         ELSE [ok |-> FALSE, message_id |-> <<>>, raw |-> <<>>,
               err |-> "Missing message-id header."]
    ELSE [ok |-> FALSE, message_id |-> <<>>, raw |-> <<>>,
          err |-> "Could not parse RFC5322/RFC822 message."]

\* SmtpEmail::new
SmtpEmailNew(from, to, data) ==
    IF EmailParse(data).ok
    THEN OkMail(from, to, EmailParse(data).message_id, EmailParse(data).raw)
    ELSE Err("MailParsing", EmailParse(data).err)

(***************************************************************************)
(* MailHandler.  A callback yields the handler after the call and the      *)
(* response it returns.                                                    *)
(***************************************************************************)
NoDataEnd == Err("Smtp", "No DATA_END reveived.")

InitialResParsing == Err("MailParsing", "No DATA_END reveived.")

\* handle_mail_comm: let mut res = Err(Error::Smtp(..))
InitialRes == NoDataEnd

\* MailHandler::new
MailHandlerNew(buf, res) ==
    [from |-> None, to |-> <<>>, msg_buf |-> Some(buf), received_mail |-> res]

Ret(h, r) == [h |-> h, resp |-> r]

heloResetsSlot(h) == Ret([h EXCEPT !.received_mail = InitialRes], OK)

helo(h) == Ret(h, OK)

mailKeepsBad(h, from) == Ret([h EXCEPT !.from = Some(from)],
                             IF EmailAddressNew(from) THEN OK ELSE BAD_MAILBOX)

mail(h, from) ==
    IF EmailAddressNew(from)
    THEN Ret([h EXCEPT !.from = Some(from)], OK)
    ELSE Ret(h, BAD_MAILBOX)

rcptPrepends(h, to) ==
    IF EmailAddressNew(to)
    THEN Ret([h EXCEPT !.to = <<to>> \o @], OK)
    ELSE Ret(h, BAD_MAILBOX)

rcpt(h, to) ==
    IF EmailAddressNew(to)
    THEN Ret([h EXCEPT !.to = Append(@, to)], OK)
    ELSE Ret(h, BAD_MAILBOX)

data_startKeepsBuf(h) ==
    IF h.msg_buf = None
    THEN Ret(h, Custom(503))
    ELSE Ret(h, OK)

data_start(h) ==
    IF h.msg_buf = None
    THEN Ret(h, Custom(503))
    ELSE IF h.msg_buf[1] # <<>>
    THEN Ret([h EXCEPT !.msg_buf = Some(<<>>)], OK)
    ELSE Ret(h, OK)

dataOverwrites(h, buf) ==
    IF h.msg_buf # None
    THEN Ret([h EXCEPT !.msg_buf = Some(buf)], EMPTY_RESPONSE)
    ELSE Ret(h, EMPTY_RESPONSE)

\* data returns Ok(()), for which the session sends nothing
data(h, buf) ==
    IF h.msg_buf # None
    THEN Ret([h EXCEPT !.msg_buf = Some(@[1] \o buf)], EMPTY_RESPONSE)
    ELSE Ret(h, EMPTY_RESPONSE)

data_endKeepsBuf(h) ==
    IF h.msg_buf = None
    THEN Ret(h, PANIC)
    ELSE LET complete_mail == SmtpEmailNew(h.from, h.to, h.msg_buf[1])
             taken == [h EXCEPT !.from = None, !.to = <<>>]
         IN IF h.received_mail.kind = "Err" /\ h.received_mail.err = "Smtp"
            THEN Ret([taken EXCEPT !.received_mail = complete_mail], OK)
            ELSE IF h.received_mail.kind = "Ok"
            THEN Ret([taken EXCEPT !.received_mail =
                         Err("Smtp", "Received multiple DATA_END.")], Custom(503))
            ELSE Ret(taken, Custom(554))

\* msg_buf.take().unwrap() panics on None
data_end(h) ==
    IF h.msg_buf = None
    THEN Ret(h, PANIC)
    ELSE LET complete_mail == SmtpEmailNew(h.from, h.to, h.msg_buf[1])
             taken == [h EXCEPT !.msg_buf = None, !.from = None, !.to = <<>>]
         IN IF h.received_mail.kind = "Err" /\ h.received_mail.err = "Smtp"
            THEN Ret([taken EXCEPT !.received_mail = complete_mail], OK)
            ELSE IF h.received_mail.kind = "Ok"
            THEN Ret([taken EXCEPT !.received_mail =
                         Err("Smtp", "Received multiple DATA_END.")], Custom(503))
            ELSE Ret(taken, Custom(554))

auth_plainAccepts(h, authorization_id, authentication_id, password) ==
    Ret([h EXCEPT !.from = None], OK)

auth_plain(h, authorization_id, authentication_id, password) ==
    Ret(h, INVALID_CREDENTIALS)


(***************************************************************************)
(* The mailin session driven by session.process(line): command parsing     *)
(* and the state machine that decides which callback a line invokes.       *)
(* States: Idle (greeted), Hello (awaiting MAIL), Mail (awaiting RCPT),    *)
(* Rcpt (awaiting RCPT or DATA), Data (receiving data), Closed.            *)
(***************************************************************************)
Cmd(ts) == ts \o CRLF
Terminator == <<".", CR, LF>>

Verbs0 == {"HELO", "EHLO", "DATA", "RSET", "NOOP", "QUIT", "STARTTLS"}
Verbs1 == {"MAIL", "RCPT"}

\* a command line must end in CRLF; anything else is a syntax error
Parse(l) ==
    IF Len(l) < 3 \/ SubSeq(l, Len(l) - 1, Len(l)) # CRLF
    THEN [cmd |-> "SyntaxError", arg |-> <<>>]
    ELSE LET body == SubSeq(l, 1, Len(l) - 2)
         IN IF body[1] \in Verbs0 /\ Len(body) = 1
            THEN [cmd |-> body[1], arg |-> <<>>]
            ELSE IF body[1] \in Verbs1
            THEN [cmd |-> body[1], arg |-> Tail(body)]
            ELSE [cmd |-> "SyntaxError", arg |-> <<>>]

Out(st, h, r, cb) == [state |-> st, h |-> h, resp |-> r, cb |-> cb]

\* the state after a callback's response: an error response keeps the state
NextState(cur, r, next) ==
    IF r.action = "Close" THEN "Closed"
    ELSE IF r.action = "Panic" \/ IsError(r) THEN cur
    ELSE next

\* commands every state but Data treats alike
DefaultHandler(st, h, c) ==
    IF c.cmd = "QUIT" THEN Out("Closed", h, GOODBYE, "none")
    ELSE IF c.cmd \in {"HELO", "EHLO"}
    THEN Out(NextState(st, helo(h).resp, "Hello"), helo(h).h, helo(h).resp, "helo")
    ELSE IF c.cmd = "NOOP" THEN Out(st, h, OK, "none")
    ELSE Out(st, h, BAD_SEQUENCE_COMMANDS, "none")

Handle(st, h, c, starttls) ==
    IF c.cmd = "RSET"
    THEN Out(IF st = "Idle" THEN "Idle" ELSE "Hello", h, OK, "none")
    ELSE IF st = "Hello" /\ c.cmd = "MAIL"
    THEN Out(NextState(st, mail(h, c.arg).resp, "Mail"),
             mail(h, c.arg).h, mail(h, c.arg).resp, "mail")
    ELSE IF st = "Hello" /\ c.cmd = "STARTTLS" /\ starttls
    THEN Out("Idle", h, START_TLS, "none")
    ELSE IF st \in {"Mail", "Rcpt"} /\ c.cmd = "RCPT"
    THEN Out(NextState(st, rcpt(h, c.arg).resp, "Rcpt"),
             rcpt(h, c.arg).h, rcpt(h, c.arg).resp, "rcpt")
    ELSE IF st = "Rcpt" /\ c.cmd = "DATA"
    THEN LET r == data_start(h)
             res == IF r.resp = OK THEN START_DATA ELSE r.resp
         IN Out(NextState(st, res, "Data"), r.h, res, "data_start")
    ELSE DefaultHandler(st, h, c)

\* dot-unstuffing of a data line
Unstuff(l) == IF l # <<>> /\ l[1] = "." THEN Tail(l) ELSE l

\* session.process
Process(st, h, l, starttls) ==
    IF st = "Data"
    THEN IF l = Terminator
         THEN Out(NextState(st, data_end(h).resp, "Hello"),
                  data_end(h).h, data_end(h).resp, "data_end")
         ELSE Out(st, data(h, Unstuff(l)).h, data(h, Unstuff(l)).resp, "data")
    ELSE IF Parse(l).cmd = "SyntaxError"
    THEN Out(st, h, SYNTAX_ERROR, "none")
    ELSE Handle(st, h, Parse(l), starttls)

(***************************************************************************)
(* SmtpServer::new: the listener's TLS mode.                               *)
(***************************************************************************)
SmtpServerNewAlwaysStartTls(port, tls_config) ==
    [port |-> port, tls_config |-> tls_config,
     starttls |-> tls_config,
     implicit_tls |-> tls_config /\ port = ImplicitTlsPort]

SmtpServerNew(port, tls_config) ==
    [port |-> port, tls_config |-> tls_config,
     starttls |-> tls_config /\ port # ImplicitTlsPort,
     implicit_tls |-> tls_config /\ port = ImplicitTlsPort]

(***************************************************************************)
(* The client: the lines it can put on the wire.                           *)
(***************************************************************************)
MidLine == Cmd(<<"Message-ID:", "m1">>)
EmptyMidLine == Cmd(<<"Message-ID:">>)
SubjectLine == Cmd(<<"Subject:", "t">>)
HeaderMsgLines == {MidLine, EmptyMidLine, SubjectLine}
BodyMsgLines == {Cmd(<<"hi">>), Cmd(<<".", "hi">>)}

\* what a conforming client sends for a message line: dot-stuffing
DotStuff(ml) == IF ml # <<>> /\ ml[1] = "." THEN <<".">> \o ml ELSE ml

\* lines ending in a bare LF, as a non-conforming client sends them
BareLfHeaderLines == {}
BareLfBodyLines == {<<".", LF>>}

CommandLines ==
    {Cmd(<<"HELO">>), Cmd(<<"EHLO">>), Cmd(<<"DATA">>), Cmd(<<"RSET">>),
     Cmd(<<"NOOP">>), Cmd(<<"QUIT">>), Cmd(<<"STARTTLS">>),
     <<"HELO", LF>>, MidLine, Terminator}
      \cup {Cmd(<<"MAIL">> \o m) : m \in MailFromBoxes}
      \cup {Cmd(<<"RCPT">> \o m) : m \in RcptToBoxes}

BufOf(h) == IF h.msg_buf = None THEN <<>> ELSE h.msg_buf[1]
InBody(b) == \E i \in 1..Len(SplitLines(b)) : IsBlank(SplitLines(b)[i])
HasMid(b) == \E i \in 1..Len(SplitLines(b)) : IsMidLine(SplitLines(b)[i])

\* the data lines the model lets the client send next: header lines before
\* the empty line, text after it, at most one Message-ID line per section
DataLineAllowed(b, ml) ==
    /\ Len(SplitLines(b)) < MaxData
    /\ IsMidLine(ml) => ~HasMid(b)
    /\ (ml \in HeaderMsgLines \cup BareLfHeaderLines) => ~InBody(b)
    /\ (ml \in BodyMsgLines \cup BareLfBodyLines) => InBody(b)


(***************************************************************************)
(* The connection task: recv_mail, then handle_mail_comm.                  *)
(***************************************************************************)
\* Config::load_mapping is not looked at
NoMapping == [pc |-> "none", addr_key |-> None, path |-> None, result |-> None]

\* no TLS handshake is looked at
NoHandshake ==
    [pc |-> "none", domain_cert_map |-> <<>>, client_hello |-> [server_name |-> None],
     resolved |-> None]

\* the process around the connection when only one connection is looked at
ProcessIdle ==
    /\ main = [pc |-> "join", n_addrs |-> 0, addr_i |-> 0, smtp_servers |-> <<>>,
               bind_errs |-> {}, spawn_i |-> 0, exit_code |-> None]
    /\ server_tasks = <<>>
    /\ conn_tasks = <<>>
    /\ dest_map = <<>>
    /\ files = <<>>
    /\ write_log = <<>>
    /\ handshake = NoHandshake
    /\ mapping = NoMapping
    /\ sessions = <<>>

NoScript ==
    /\ script' = "off"
    /\ scriptFrom' = None
    /\ scriptTo' = None
    /\ scriptMid' = None
    /\ sent' = <<>>

script_vars == <<script, scriptFrom, scriptTo, scriptMid, sent>>
session_vars == <<last_response, state, mail_handler, lastCb, lastArg>>
history_vars == <<dataEnds, reDataPhase, txTo, plainTo>>
wire_vars == <<plainSent, tlsSent, flushed, acked>>

Init ==
    /\ listener \in {SmtpServerNew(p, t) : p \in Ports, t \in BOOLEAN}
    /\ pc = "recv_mail"
    /\ tls_active = FALSE
    /\ upgraded = FALSE
    /\ eof = FALSE
    /\ last_response = EMPTY_RESPONSE
    /\ state = "Idle"
    /\ mail_handler = MailHandlerNew(<<>>, InitialRes)
    /\ returned = None
    /\ io_error = "none"
    /\ lastCb = "none"
    /\ lastArg = None
    /\ dataEnds = 0
    /\ txTo = <<>>
    /\ plainTo = <<>>
    /\ reDataPhase = "none"
    /\ plainSent = FALSE
    /\ tlsSent = FALSE
    /\ flushed = FALSE
    /\ acked = 0
    /\ script = "start"
    /\ scriptFrom = None
    /\ scriptTo = None
    /\ scriptMid = None
    /\ sent = <<>>
    /\ ProcessIdle

\* the function returns: its session, handler and result slot are dropped
Return(result) ==
    /\ returned' = Some(result)
    /\ pc' = "done"
    /\ last_response' = EMPTY_RESPONSE
    /\ state' = "Closed"
    /\ mail_handler' = MailHandlerNew(<<>>, InitialRes)
    /\ lastCb' = "none"
    /\ lastArg' = None

\* an `?` on a failed I/O operation: the function returns the converted error
Fail(what) ==
    /\ Return(FromIoError)
    /\ io_error' = what

\* recv_mail on a listener without implicit TLS: the plain stream is used
RecvMailPlain ==
    /\ pc = "recv_mail"
    /\ ~listener.implicit_tls
    /\ pc' = "greeting"
    /\ UNCHANGED <<process_vars, listener, tls_active, upgraded, eof, returned, io_error,
                   session_vars, history_vars, script_vars, wire_vars>>

RecvMailNoHandshake ==
    /\ pc = "recv_mail"
    /\ listener.implicit_tls
    /\ pc' = "greeting"
    /\ UNCHANGED <<process_vars, listener, tls_active, upgraded, eof, returned, io_error,
                   session_vars, history_vars, script_vars, wire_vars>>

\* recv_mail on an implicit-TLS listener: the handshake comes first
RecvMailTls ==
    /\ pc = "recv_mail"
    /\ listener.implicit_tls
    /\ pc' = IF listener.tls_config THEN "greeting" ELSE "panicked"
    /\ tls_active' = listener.tls_config
    /\ UNCHANGED <<process_vars, listener, upgraded, eof, returned, io_error,
                   session_vars, history_vars, script_vars, wire_vars>>

RecvMailTlsFail ==
    /\ pc = "recv_mail"
    /\ listener.implicit_tls
    /\ listener.tls_config
    /\ Fail("tls_accept")
    /\ UNCHANGED <<process_vars, listener, tls_active, upgraded, eof, history_vars, script_vars,
                   wire_vars>>

WrittenUnflushed(r) ==
    /\ plainSent' = (plainSent \/ (r.action # "NoReply" /\ ~tls_active))
    /\ tlsSent' = (tlsSent \/ (r.action # "NoReply" /\ tls_active))
    /\ flushed' = flushed
    /\ acked' = IF lastCb = "data_end" THEN r.code ELSE acked

\* a response written and flushed to the handler's current stream
Written(r) ==
    /\ plainSent' = (plainSent \/ (r.action # "NoReply" /\ ~tls_active))
    /\ tlsSent' = (tlsSent \/ (r.action # "NoReply" /\ tls_active))
    /\ flushed' = TRUE
    /\ acked' = IF lastCb = "data_end" THEN r.code ELSE acked

\* handle_mail_comm up to its first loop: result slot, handler, session, greeting
Greeting ==
    /\ pc = "greeting"
    /\ mail_handler' = MailHandlerNew(<<>>, InitialRes)
    /\ state' = "Idle"
    /\ last_response' = GREETING
    /\ Written(GREETING)
    /\ pc' = "read"
    /\ UNCHANGED <<process_vars, listener, tls_active, upgraded, eof, returned, io_error,
                   lastCb, lastArg, history_vars, script_vars>>

GreetingFail ==
    /\ pc = "greeting"
    /\ Fail("write")
    /\ UNCHANGED <<process_vars, listener, tls_active, upgraded, eof, history_vars, script_vars,
                   wire_vars>>

\* the loop takes the session's answer to line l
Commit(o, l) ==
    /\ state' = o.state
    /\ mail_handler' = o.h
    /\ last_response' = o.resp
    /\ lastCb' = o.cb
    /\ lastArg' = IF o.cb \in {"mail", "rcpt"} THEN Some(Parse(l).arg)
                  ELSE IF o.cb = "data_start" THEN Some(BufOf(mail_handler))
                  ELSE None
    /\ dataEnds' = IF o.cb = "data_end" /\ dataEnds < 2 THEN dataEnds + 1 ELSE dataEnds
    /\ reDataPhase' =
         IF o.cb = "data_start" /\ mail_handler.received_mail.kind = "Ok"
         THEN "data"
         ELSE IF l = MidLine /\ reDataPhase = "data" THEN "data"
         ELSE IF l = Terminator /\ reDataPhase = "data" THEN "done"
         ELSE "none"
    /\ txTo' =
         IF o.cb = "rcpt" /\ o.resp = OK THEN Append(txTo, Parse(l).arg)
         ELSE IF o.cb \in {"helo", "mail", "data_end"} \/ o.resp = START_TLS THEN <<>>
         ELSE IF state # "Data" /\ Parse(l).cmd = "RSET" THEN <<>>
         ELSE txTo
    /\ plainTo' = plainTo
    /\ pc' = IF o.resp.action = "Panic" THEN "panicked" ELSE "write"
    /\ flushed' = FALSE

\* read_line returned l; session.process(l) ran
Processed(l) == Commit(Process(state, mail_handler, l, listener.starttls), l)

\* the client's progress through HELO, MAIL, RCPT, DATA, message, ".", QUIT;
\* after HELO it may ask for STARTTLS and begin again on the upgraded stream
ScriptAfter(l) ==
    IF script = "start" /\ l = Cmd(<<"HELO">>) THEN "helo"
    ELSE IF script = "helo" /\ l = Cmd(<<"STARTTLS">>) /\ listener.starttls THEN "start"
    ELSE IF script = "helo" /\ l \in {Cmd(<<"MAIL">> \o m) : m \in {A_X, B_Y}} THEN "mail"
    ELSE IF script = "mail" /\ l \in {Cmd(<<"RCPT">> \o m) : m \in {A_X, B_Y}} THEN "rcpt"
    ELSE IF script = "rcpt" /\ l = Cmd(<<"DATA">>) THEN "data"
    ELSE IF script = "sent" /\ l = Cmd(<<"QUIT">>) THEN "quit"
    ELSE "off"

\* the client sends a line while the session expects a command; it names at
\* most MaxRcpt recipients and none of them twice
ClientCommand ==
    /\ pc = "read"
    /\ ~eof
    /\ state # "Data"
    /\ \E l \in CommandLines :
         /\ Parse(l).cmd = "RCPT" =>
              /\ Len(mail_handler.to) < MaxRcpt
              /\ \A i \in 1..Len(mail_handler.to) : mail_handler.to[i] # Parse(l).arg
         /\ Processed(l)
         /\ IF ScriptAfter(l) = "off"
            THEN NoScript
            ELSE /\ script' = ScriptAfter(l)
                 /\ scriptFrom' = IF Parse(l).cmd = "MAIL" THEN Some(Parse(l).arg)
                                  ELSE scriptFrom
                 /\ scriptTo' = IF Parse(l).cmd = "RCPT" THEN Some(Parse(l).arg)
                                ELSE scriptTo
                 /\ UNCHANGED <<scriptMid, sent>>
    /\ UNCHANGED <<process_vars, listener, tls_active, upgraded, eof, returned, io_error, plainSent, tlsSent, acked>>

\* a conforming client sends the next line of its message, dot-stuffed
ClientData ==
    /\ pc = "read"
    /\ ~eof
    /\ state = "Data"
    /\ \E ml \in HeaderMsgLines \cup BodyMsgLines \cup {CRLF} :
         /\ DataLineAllowed(BufOf(mail_handler), ml)
         /\ Processed(DotStuff(ml))
         /\ IF script = "data"
            THEN /\ sent' = sent \o ml
                 /\ scriptMid' = IF IsMidLine(ml) /\ ~InBody(sent)
                                 THEN Some(SubSeq(ml, 2, Len(ml) - 2))
                                 ELSE scriptMid
                 /\ UNCHANGED <<script, scriptFrom, scriptTo>>
            ELSE NoScript
    /\ UNCHANGED <<process_vars, listener, tls_active, upgraded, eof, returned, io_error, plainSent, tlsSent, acked>>

\* a non-conforming client ends a data line with a bare LF
ClientDataBareLf ==
    /\ pc = "read"
    /\ ~eof
    /\ state = "Data"
    /\ \E l \in BareLfHeaderLines \cup BareLfBodyLines :
         /\ DataLineAllowed(BufOf(mail_handler), l)
         /\ Processed(l)
    /\ NoScript
    /\ UNCHANGED <<process_vars, listener, tls_active, upgraded, eof, returned, io_error, plainSent, tlsSent, acked>>

\* the client ends the DATA section
ClientTerminator ==
    /\ pc = "read"
    /\ ~eof
    /\ state = "Data"
    /\ Processed(Terminator)
    /\ IF script = "data" /\ scriptMid # None /\ scriptMid # Some(<<>>)
       THEN script' = "sent" /\ UNCHANGED <<scriptFrom, scriptTo, scriptMid, sent>>
       ELSE NoScript
    /\ UNCHANGED <<process_vars, listener, tls_active, upgraded, eof, returned, io_error, plainSent, tlsSent, acked>>

\* the stream ends in the middle of a line: read_line returns what is left
ClientPartialEof ==
    /\ pc = "read"
    /\ ~eof
    /\ state = "Data" => Len(SplitLines(BufOf(mail_handler))) < MaxData
    /\ Processed(<<"hi">>)
    /\ eof' = TRUE
    /\ NoScript
    /\ UNCHANGED <<process_vars, listener, tls_active, upgraded, returned, io_error, plainSent, tlsSent, acked>>

\* end of stream: read_line returns Ok(0) and leaves the line empty
ClientEof ==
    /\ pc = "read"
    /\ Processed(<<>>)
    /\ eof' = TRUE
    /\ NoScript
    /\ UNCHANGED <<process_vars, listener, tls_active, upgraded, returned, io_error, plainSent, tlsSent, acked>>

ReadFail ==
    /\ pc = "read"
    /\ Fail("read")
    /\ UNCHANGED <<process_vars, listener, tls_active, upgraded, eof, history_vars, script_vars,
                   wire_vars>>

\* write_resp_async and flush, then the loop condition
WriteResp ==
    /\ pc = "write"
    /\ Written(last_response)
    /\ pc' = IF last_response.action = "Close" THEN "shutdown"
             ELSE IF last_response.action = "UpgradeTls" /\ ~upgraded THEN "upgrade"
             ELSE "read"
    /\ UNCHANGED <<process_vars, listener, tls_active, upgraded, eof, returned, io_error,
                   session_vars, history_vars, script_vars>>

WriteFail ==
    /\ pc = "write"
    /\ Fail("write")
    /\ UNCHANGED <<process_vars, listener, tls_active, upgraded, eof, history_vars, script_vars,
                   wire_vars>>

UpgradeTlsFreshSession ==
    /\ pc = "upgrade"
    /\ pc' = IF listener.tls_config THEN "read" ELSE "panicked"
    /\ tls_active' = listener.tls_config
    /\ upgraded' = listener.tls_config
    /\ mail_handler' = MailHandlerNew(<<>>, mail_handler.received_mail)
    /\ plainTo' = IF listener.tls_config THEN mail_handler.to ELSE plainTo
    /\ UNCHANGED <<process_vars, listener, eof, returned, io_error, last_response, state,
                   lastCb, lastArg, dataEnds, reDataPhase, txTo, script_vars, wire_vars>>

\* the STARTTLS upgrade: handshake on the same stream, same session
UpgradeTls ==
    /\ pc = "upgrade"
    /\ pc' = IF listener.tls_config THEN "read" ELSE "panicked"
    /\ tls_active' = listener.tls_config
    /\ upgraded' = listener.tls_config
    /\ plainTo' = IF listener.tls_config THEN mail_handler.to ELSE plainTo
    /\ UNCHANGED <<process_vars, listener, eof, returned, io_error, session_vars, dataEnds,
                   reDataPhase, txTo, script_vars, wire_vars>>

UpgradeTlsFail ==
    /\ pc = "upgrade"
    /\ listener.tls_config
    /\ Fail("tls_accept")
    /\ UNCHANGED <<process_vars, listener, tls_active, upgraded, eof, history_vars, script_vars,
                   wire_vars>>

\* stream.shutdown(), then the result slot is returned
Shutdown ==
    /\ pc = "shutdown"
    /\ Return(mail_handler.received_mail)
    /\ UNCHANGED <<process_vars, listener, tls_active, upgraded, eof, io_error, history_vars,
                   script_vars, wire_vars>>

ShutdownFail ==
    /\ pc = "shutdown"
    /\ Fail("shutdown")
    /\ UNCHANGED <<process_vars, listener, tls_active, upgraded, eof, history_vars, script_vars,
                   wire_vars>>

Next ==
    \/ RecvMailPlain
    \/ RecvMailTls
    \/ RecvMailTlsFail
    \/ Greeting
    \/ GreetingFail
    \/ ClientCommand
    \/ ClientData
    \/ ClientDataBareLf
    \/ ClientTerminator
    \/ ClientPartialEof
    \/ ClientEof
    \/ ReadFail
    \/ WriteResp
    \/ WriteFail
    \/ UpgradeTls
    \/ UpgradeTlsFail
    \/ Shutdown
    \/ ShutdownFail

Spec == Init /\ [][Next]_vars

\* what handle_mail_comm does without waiting for the client: the runtime keeps
\* polling the task, a write to a stream that accepts it completes, and
\* read_line on a stream at its end returns Ok(0) at once
ServerStep ==
    \/ RecvMailPlain
    \/ RecvMailTls
    \/ Greeting
    \/ (eof /\ ClientEof)
    \/ WriteResp
    \/ UpgradeTls
    \/ Shutdown

\* the connection under a fair runtime; I/O may fail but need not
SpecFair == Init /\ [][Next]_vars /\ WF_vars(ServerStep)

(***************************************************************************)
(* The auth_plain callback on its own: the session hands it the decoded    *)
(* credentials of an AUTH PLAIN command; the handler it is called on is    *)
(* any handler a session can hold.                                         *)
(***************************************************************************)
AuthIds == {<<>>, <<"u">>}
Passwords == {<<>>, <<"pw">>}
AuthStates == {"Idle", "Hello", "Mail", "Rcpt", "Data"}
AuthSlots ==
    {InitialRes, SmtpEmailNew(Some(A_X), <<B_Y>>, MidLine), SmtpEmailNew(None, <<>>, <<>>)}
AuthHandlers ==
    {[from |-> f, to |-> t, msg_buf |-> b, received_mail |-> r] :
        f \in {None, Some(A_X)},
        t \in {<<>>, <<B_Y>>, <<B_Y, A_X>>},
        b \in {None, Some(<<>>), Some(MidLine)},
        r \in AuthSlots}

InitAuth ==
    /\ listener = SmtpServerNew(25, FALSE)
    /\ pc = "read"
    /\ tls_active = FALSE
    /\ upgraded = FALSE
    /\ eof = FALSE
    /\ last_response = GREETING
    /\ state \in AuthStates
    /\ mail_handler \in AuthHandlers
    /\ returned = None
    /\ io_error = "none"
    /\ lastCb = "none"
    /\ lastArg = None
    /\ dataEnds = 0
    /\ txTo = <<>>
    /\ plainTo = <<>>
    /\ reDataPhase = "none"
    /\ plainSent = TRUE
    /\ tlsSent = FALSE
    /\ flushed = TRUE
    /\ acked = 0
    /\ script = "off"
    /\ scriptFrom = None
    /\ scriptTo = None
    /\ scriptMid = None
    /\ sent = <<>>
    /\ ProcessIdle

\* the session invokes auth_plain and hands its response back to the loop
AuthPlainCall ==
    /\ pc = "read"
    /\ \E authorization_id \in AuthIds, authentication_id \in AuthIds,
          password \in Passwords :
         LET r == auth_plain(mail_handler, authorization_id, authentication_id, password)
         IN /\ mail_handler' = r.h
            /\ last_response' = r.resp
            /\ lastCb' = "auth_plain"
            /\ lastArg' = Some(<<authorization_id, authentication_id, password>>)
    /\ UNCHANGED <<process_vars, listener, pc, tls_active, upgraded, eof, state, returned, io_error,
                   history_vars, script_vars, wire_vars>>

NextAuth == AuthPlainCall

SpecAuth == InitAuth /\ [][NextAuth]_vars

(***************************************************************************)
(* The callbacks on their own: the session invokes one callback, for one   *)
(* line, on any handler it can hold (a buffer that is held, empty or not,  *)
(* or taken; a slot that is Err or Ok), and the loop writes the response.  *)
(***************************************************************************)
\* helo, mail, rcpt or data_start (through the session's command handling)
CallbackCommand ==
    /\ lastCb = "none"
    /\ ClientCommand

\* data
CallbackData ==
    /\ lastCb = "none"
    /\ ClientData

\* data_end
CallbackDataEnd ==
    /\ lastCb = "none"
    /\ ClientTerminator

NextHandler ==
    \/ CallbackCommand
    \/ CallbackData
    \/ CallbackDataEnd
    \/ AuthPlainCall
    \/ WriteResp

SpecHandler == InitAuth /\ [][NextHandler]_vars

(***************************************************************************)
(* main(): startup, then one accept loop per bound listener.  A connection *)
(* task is followed here only as far as the accept loop sees it: spawned,  *)
(* and finished or not.                                                    *)
(***************************************************************************)
ConnectionIdle ==
    /\ listener = SmtpServerNew(25, FALSE)
    /\ pc = "done"
    /\ tls_active = FALSE
    /\ upgraded = FALSE
    /\ eof = FALSE
    /\ last_response = EMPTY_RESPONSE
    /\ state = "Closed"
    /\ mail_handler = MailHandlerNew(<<>>, InitialRes)
    /\ returned = None
    /\ io_error = "none"
    /\ lastCb = "none"
    /\ lastArg = None
    /\ dataEnds = 0
    /\ txTo = <<>>
    /\ plainTo = <<>>
    /\ reDataPhase = "none"
    /\ plainSent = FALSE
    /\ tlsSent = FALSE
    /\ flushed = FALSE
    /\ acked = 0
    /\ script = "off"
    /\ scriptFrom = None
    /\ scriptTo = None
    /\ scriptMid = None
    /\ sent = <<>>

InitMain ==
    /\ ConnectionIdle
    /\ main = [pc |-> "config", n_addrs |-> 0, addr_i |-> 0, smtp_servers |-> <<>>,
               bind_errs |-> {}, spawn_i |-> 0, exit_code |-> None]
    /\ server_tasks = <<>>
    /\ conn_tasks = <<>>
    /\ dest_map = <<>>
    /\ files = <<>>
    /\ write_log = <<>>
    /\ handshake = NoHandshake
    /\ mapping = NoMapping
    /\ sessions = <<>>

Exit(code) == main' = [main EXCEPT !.pc = "exit", !.exit_code = Some(code)]

\* Config::with_args: the configuration with its local_addrs, or exit code 1
LoadConfig ==
    /\ main.pc = "config"
    /\ \/ \E n \in 0..MaxAddrs : main' = [main EXCEPT !.pc = "logger", !.n_addrs = n]
       \/ Exit(1)
    /\ UNCHANGED <<conn_vars, sessions, config_vars, server_tasks, dispatch_vars>>

\* init_logger, or exit code 2
InitLogger ==
    /\ main.pc = "logger"
    /\ \/ main' = [main EXCEPT !.pc = "bind"]
       \/ Exit(2)
    /\ UNCHANGED <<conn_vars, sessions, config_vars, server_tasks, dispatch_vars>>

\* one iteration of the loop over config.local_addrs: SmtpServer::new binds or fails
Bind ==
    /\ main.pc = "bind"
    /\ main.addr_i < main.n_addrs
    /\ \/ main' = [main EXCEPT !.addr_i = @ + 1,
                               !.smtp_servers = Append(@, main.addr_i + 1)]
       \/ main' = [main EXCEPT !.addr_i = @ + 1,
                               !.bind_errs = @ \cup {main.addr_i + 1}]
    /\ UNCHANGED <<conn_vars, sessions, config_vars, server_tasks, dispatch_vars>>

BindDoneAnyFailure ==
    /\ main.pc = "bind"
    /\ main.addr_i = main.n_addrs
    /\ IF main.bind_errs # {} \/ main.smtp_servers = <<>>
       THEN Exit(3)
       ELSE main' = [main EXCEPT !.pc = "setuid"]
    /\ UNCHANGED <<conn_vars, sessions, config_vars, server_tasks, dispatch_vars>>

\* after the loop: no server at all is fatal
BindDone ==
    /\ main.pc = "bind"
    /\ main.addr_i = main.n_addrs
    /\ IF main.smtp_servers = <<>>
       THEN Exit(3)
       ELSE main' = [main EXCEPT !.pc = "setuid"]
    /\ UNCHANGED <<conn_vars, sessions, config_vars, server_tasks, dispatch_vars>>

\* set_effective_uid, when a user is configured, or exit code 4
SetUid ==
    /\ main.pc = "setuid"
    /\ \/ main' = [main EXCEPT !.pc = "setgid"]
       \/ Exit(4)
    /\ UNCHANGED <<conn_vars, sessions, config_vars, server_tasks, dispatch_vars>>

\* set_effective_gid, when a group is configured, or exit code 5
SetGid ==
    /\ main.pc = "setgid"
    /\ \/ main' = [main EXCEPT !.pc = "spawn"]
       \/ Exit(5)
    /\ UNCHANGED <<conn_vars, sessions, config_vars, server_tasks, dispatch_vars>>

\* the task of one listener as it is spawned: an empty conn_task_list
ServerTask(addr) ==
    [addr |-> addr, pc |-> "accept", conn_task_list |-> <<>>, spawned |-> 0,
     running |-> {}, last_accept |-> "none"]

\* one iteration of the loop over smtp_servers: spawn the listener's task;
\* after the last one main awaits the handles
SpawnServer ==
    /\ main.pc = "spawn"
    /\ IF main.spawn_i < Len(main.smtp_servers)
       THEN /\ server_tasks' =
                 Append(server_tasks, ServerTask(main.smtp_servers[main.spawn_i + 1]))
            /\ main' = [main EXCEPT !.spawn_i = @ + 1]
       ELSE /\ main' = [main EXCEPT !.pc = "join"]
            /\ UNCHANGED server_tasks
    /\ UNCHANGED <<conn_vars, sessions, config_vars, dispatch_vars>>

\* accept_conn returns a connection
AcceptOk(k) ==
    /\ server_tasks[k].pc = "accept"
    /\ server_tasks[k].spawned < MaxConns
    /\ server_tasks' = [server_tasks EXCEPT ![k].pc = "spawn", ![k].last_accept = "ok"]
    /\ UNCHANGED <<conn_vars, sessions, config_vars, main, dispatch_vars>>

\* accept_conn returns an error, of whatever kind: logged, then `continue`
AcceptErr(k) ==
    /\ server_tasks[k].pc = "accept"
    /\ \E kind \in {"nonfatal", "fatal"} :
         server_tasks' = [server_tasks EXCEPT ![k].pc = "accept", ![k].last_accept = kind]
    /\ UNCHANGED <<conn_vars, sessions, config_vars, main, dispatch_vars>>

\* tokio::spawn of the connection task, its handle pushed to conn_task_list
SpawnConn(k) ==
    /\ server_tasks[k].pc = "spawn"
    /\ server_tasks' =
         [server_tasks EXCEPT ![k].pc = "reap",
                              ![k].spawned = @ + 1,
                              ![k].conn_task_list = Append(@, server_tasks[k].spawned + 1),
                              ![k].running = @ \cup {server_tasks[k].spawned + 1}]
    /\ UNCHANGED <<conn_vars, sessions, config_vars, main, dispatch_vars>>

\* the cleanup loop: the front handle is finished, it is popped and joined
ReapFinished(k) ==
    /\ server_tasks[k].pc = "reap"
    /\ server_tasks[k].conn_task_list # <<>>
    /\ Head(server_tasks[k].conn_task_list) \notin server_tasks[k].running
    /\ server_tasks' = [server_tasks EXCEPT ![k].conn_task_list = Tail(@)]
    /\ UNCHANGED <<conn_vars, sessions, config_vars, main, dispatch_vars>>

ReapDoneAwaitsFront(k) ==
    /\ server_tasks[k].pc = "reap"
    /\ server_tasks[k].conn_task_list = <<>>
    /\ server_tasks' = [server_tasks EXCEPT ![k].pc = "accept"]
    /\ UNCHANGED <<conn_vars, sessions, config_vars, main, dispatch_vars>>

\* the cleanup loop ends: no handle, or the front one is not finished
ReapDone(k) ==
    /\ server_tasks[k].pc = "reap"
    /\ server_tasks[k].conn_task_list # <<>> =>
           Head(server_tasks[k].conn_task_list) \in server_tasks[k].running
    /\ server_tasks' = [server_tasks EXCEPT ![k].pc = "accept"]
    /\ UNCHANGED <<conn_vars, sessions, config_vars, main, dispatch_vars>>

\* a connection task runs to its end
ConnTaskFinish(k) ==
    /\ \E n \in server_tasks[k].running :
         server_tasks' = [server_tasks EXCEPT ![k].running = @ \ {n}]
    /\ UNCHANGED <<conn_vars, sessions, config_vars, main, dispatch_vars>>

\* the steps of listener k's task that wait for nothing
AcceptLoopStep(k) == SpawnConn(k) \/ ReapFinished(k) \/ ReapDone(k)

NextMain ==
    \/ LoadConfig
    \/ InitLogger
    \/ Bind
    \/ BindDone
    \/ SetUid
    \/ SetGid
    \/ SpawnServer
    \/ \E k \in DOMAIN server_tasks : AcceptOk(k)
    \/ \E k \in DOMAIN server_tasks : AcceptErr(k)
    \/ \E k \in DOMAIN server_tasks : SpawnConn(k)
    \/ \E k \in DOMAIN server_tasks : ReapFinished(k)
    \/ \E k \in DOMAIN server_tasks : ReapDone(k)
    \/ \E k \in DOMAIN server_tasks : ConnTaskFinish(k)

\* the runtime keeps running a listener task that is ready; a client need not
\* connect and a connection task need not finish
SpecMain ==
    /\ InitMain
    /\ [][NextMain]_vars
    /\ \A k \in 1..MaxAddrs : WF_vars(k \in DOMAIN server_tasks /\ AcceptLoopStep(k))

(***************************************************************************)
(* The connection task after recv_mail: the dispatch loop over email.to    *)
(* and FileDestination::write_email.  A path is the sequence of its        *)
(* components from the root, each a sequence of bytes; in a message id the *)
(* byte "/" is the separator.  The directories exist before the program    *)
(* starts and stay; nothing but write_email touches the files.             *)
(***************************************************************************)
SPOOL == <<<<"spool">>>>
SPOOL_SUB == <<<<"spool">>, <<"sub">>>>
Dirs == {<<>>, SPOOL, SPOOL_SUB}

\* FileDestination::new: the base path has to be a directory
FileDestinationNewUnchecked(path) ==
    [ok |-> TRUE, dest |-> [base_path |-> path], err |-> "", kind |-> ""]

\* FileDestination::new: the base path has to be a directory
FileDestinationNew(path) ==
    IF path \in Dirs
    THEN [ok |-> TRUE, dest |-> [base_path |-> path], err |-> "", kind |-> ""]
    ELSE [ok |-> FALSE, dest |-> [base_path |-> <<>>], err |-> "SysIo", kind |-> "NotFound"]

\* the components of a path given as bytes
RECURSIVE Components(_)
Components(b) ==
    IF b = <<>> THEN <<>>
    ELSE IF b[1] = "/" THEN Components(Tail(b))
    ELSE IF \E i \in 1..Len(b) : b[i] = "/"
         THEN LET n == CHOOSE i \in 1..Len(b) : b[i] = "/" /\ \A j \in 1..(i - 1) : b[j] # "/"
              IN <<SubSeq(b, 1, n - 1)>> \o Components(SubSeq(b, n + 1, Len(b)))
         ELSE <<b>>

IsAbsolute(b) == b # <<>> /\ b[1] = "/"

\* PathBuf::push: an absolute path replaces the path pushed to
Push(path, b) == IF IsAbsolute(b) THEN Components(b) ELSE path \o Components(b)

\* the file system's walk along a path: the directory reached, None when a
\* component is no directory
RECURSIVE Walk(_, _)
Walk(dir, comps) ==
    IF comps = <<>> THEN Some(dir)
    ELSE IF Head(comps) = <<"..">>
         THEN Walk(IF dir = <<>> THEN dir ELSE SubSeq(dir, 1, Len(dir) - 1), Tail(comps))
    ELSE IF Append(dir, Head(comps)) \in Dirs
         THEN Walk(Append(dir, Head(comps)), Tail(comps))
    ELSE None

\* the file a path names: None when its directory does not exist
Resolve(path) ==
    IF path = <<>> THEN Some(<<>>)
    ELSE IF Walk(<<>>, SubSeq(path, 1, Len(path) - 1)) = None THEN None
    ELSE IF path[Len(path)] = <<"..">> THEN Walk(<<>>, path)
    ELSE Some(Append(Walk(<<>>, SubSeq(path, 1, Len(path) - 1))[1], path[Len(path)]))

\* what write_email writes for an email
FileBytes(email) == email.message_id \o <<LF, LF>> \o email.raw

DispatchIds == {<<"m1">>, <<"/", "m1">>, <<"..", "/", "m1">>, <<"sub", "/", "m1">>}
DispatchTo == {<<B_Y>>, <<A_X, B_Y>>, <<B_Y, B_Y>>}
DispatchBody(t) == IF t = 1 THEN Cmd(<<"hi">>) ELSE Cmd(<<"yo">>)

\* what recv_mail can hand to connection task t
RecvResults(t) ==
    {NoDataEnd, Err("MailParsing", "Missing message-id header."), FromIoError}
        \cup {SmtpEmailNew(Some(A_X), to, Cmd(<<"Message-ID:">> \o id) \o CRLF \o DispatchBody(t)) :
                 to \in DispatchTo, id \in DispatchIds}

\* Config.dest_map as load_mapping can build it
DestMaps ==
    {<<>>,
     [a \in {B_Y} |-> FileDestinationNew(SPOOL).dest],
     [a \in {A_X, B_Y} |-> IF a = A_X THEN FileDestinationNew(SPOOL_SUB).dest
                                        ELSE FileDestinationNew(SPOOL).dest]}

ConnTask ==
    [pc |-> "recv", received |-> NoDataEnd, i |-> 1, call |-> 0, file |-> None, buf |-> <<>>]

InitDispatch ==
    /\ ConnectionIdle
    /\ main = [pc |-> "join", n_addrs |-> 0, addr_i |-> 0, smtp_servers |-> <<>>,
               bind_errs |-> {}, spawn_i |-> 0, exit_code |-> None]
    /\ server_tasks = <<>>
    /\ conn_tasks = <<ConnTask, ConnTask>>
    /\ dest_map \in DestMaps
    /\ files = <<>>
    /\ write_log = <<>>
    /\ handshake = NoHandshake
    /\ mapping = NoMapping
    /\ sessions = <<>>

\* server.recv_mail(..).await returns; an Err is logged and the task ends
Recv(t) ==
    /\ conn_tasks[t].pc = "recv"
    /\ \E r \in RecvResults(t) :
         conn_tasks' = [conn_tasks EXCEPT ![t].received = r,
                                          ![t].pc = IF r.kind = "Ok" THEN "dispatch" ELSE "done"]
    /\ UNCHANGED <<conn_vars, sessions, config_vars, main_vars, dest_map, files, write_log>>

\* the email of the write_email call connection task t is in
EmailOf(t) == conn_tasks[t].received
RcptOf(t) == EmailOf(t).to[conn_tasks[t].i]

\* the path write_email opens
DestPath(t) == Push(dest_map[RcptOf(t)].base_path, EmailOf(t).message_id)

ExistsNever(file) == FALSE

Exists(file) == file \in Dirs \/ file \in DOMAIN files

\* the write_email call of another connection task that is in progress on the
\* same destination with the same message id as the one t is about to make: its
\* place in write_log, 0 when there is none
Colliding(t) ==
    IF \E u \in DOMAIN conn_tasks :
           /\ u # t
           /\ conn_tasks[u].call # 0
           /\ dest_map[RcptOf(u)] = dest_map[RcptOf(t)]
           /\ EmailOf(u).message_id = EmailOf(t).message_id
    THEN conn_tasks[CHOOSE u \in DOMAIN conn_tasks :
                       /\ u # t
                       /\ conn_tasks[u].call # 0
                       /\ dest_map[RcptOf(u)] = dest_map[RcptOf(t)]
                       /\ EmailOf(u).message_id = EmailOf(t).message_id].call
    ELSE 0

\* the next recipient has a destination: dest.write_email is called
DispatchWrite(t) ==
    /\ conn_tasks[t].pc = "dispatch"
    /\ conn_tasks[t].i <= Len(EmailOf(t).to)
    /\ RcptOf(t) \in DOMAIN dest_map
    /\ write_log' = Append(write_log,
                           [task |-> t, rcpt |-> conn_tasks[t].i, addr |-> RcptOf(t),
                            fresh |-> Resolve(DestPath(t)) # None
                                          /\ ~Exists(Resolve(DestPath(t))[1]),
                            during |-> Colliding(t),
                            created |-> FALSE, res |-> "pending"])
    /\ conn_tasks' = [conn_tasks EXCEPT ![t].pc = "open", ![t].call = Len(write_log) + 1]
    /\ UNCHANGED <<conn_vars, sessions, config_vars, main_vars, dest_map, files>>

DispatchDefault(t) ==
    /\ conn_tasks[t].pc = "dispatch"
    /\ conn_tasks[t].i <= Len(EmailOf(t).to)
    /\ RcptOf(t) \notin DOMAIN dest_map
    /\ write_log' = Append(write_log,
                           [task |-> t, rcpt |-> conn_tasks[t].i, addr |-> RcptOf(t),
                            fresh |-> FALSE, during |-> 0, created |-> FALSE, res |-> "Ok"])
    /\ conn_tasks' = [conn_tasks EXCEPT ![t].i = @ + 1]
    /\ UNCHANGED <<conn_vars, sessions, config_vars, main_vars, dest_map, files>>

\* the next recipient has no destination: a warning, then the next recipient
DispatchWarn(t) ==
    /\ conn_tasks[t].pc = "dispatch"
    /\ conn_tasks[t].i <= Len(EmailOf(t).to)
    /\ RcptOf(t) \notin DOMAIN dest_map
    /\ conn_tasks' = [conn_tasks EXCEPT ![t].i = @ + 1]
    /\ UNCHANGED <<conn_vars, sessions, config_vars, main_vars, dest_map, files, write_log>>

\* the loop over email.to is over
DispatchEnd(t) ==
    /\ conn_tasks[t].pc = "dispatch"
    /\ conn_tasks[t].i > Len(EmailOf(t).to)
    /\ conn_tasks' = [conn_tasks EXCEPT ![t].pc = "done"]
    /\ UNCHANGED <<conn_vars, sessions, config_vars, main_vars, dest_map, files, write_log>>

WriteEmailStopsOnErr(t, res) ==
    /\ write_log' = [write_log EXCEPT ![conn_tasks[t].call].res = res]
    /\ conn_tasks' = [conn_tasks EXCEPT ![t].pc = IF res = "Ok" THEN "dispatch" ELSE "done",
                                        ![t].i = @ + 1,
                                        ![t].call = 0,
                                        ![t].file = None,
                                        ![t].buf = <<>>]

\* write_email returns Ok or Err(SysIo(res)); an Err is logged; next recipient
WriteEmailReturns(t, res) ==
    /\ write_log' = [write_log EXCEPT ![conn_tasks[t].call].res = res]
    /\ conn_tasks' = [conn_tasks EXCEPT ![t].pc = "dispatch",
                                        ![t].i = @ + 1,
                                        ![t].call = 0,
                                        ![t].file = None,
                                        ![t].buf = <<>>]

OpenTruncates(t) ==
    /\ conn_tasks[t].pc = "open"
    /\ Resolve(DestPath(t)) # None
    /\ Resolve(DestPath(t))[1] \notin Dirs
    /\ files' = [f \in DOMAIN files \cup {Resolve(DestPath(t))[1]} |->
                    IF f = Resolve(DestPath(t))[1] THEN <<>> ELSE files[f]]
    /\ write_log' = [write_log EXCEPT ![conn_tasks[t].call].created = TRUE]
    /\ conn_tasks' = [conn_tasks EXCEPT ![t].pc = "message_id",
                                        ![t].file = Resolve(DestPath(t))]
    /\ UNCHANGED <<conn_vars, sessions, config_vars, main_vars, dest_map>>

\* OpenOptions write(true).create_new(true).open(dest_path): the file is new
OpenCreates(t) ==
    /\ conn_tasks[t].pc = "open"
    /\ Resolve(DestPath(t)) # None
    /\ ~Exists(Resolve(DestPath(t))[1])
    /\ files' = [f \in DOMAIN files \cup {Resolve(DestPath(t))[1]} |->
                    IF f = Resolve(DestPath(t))[1] THEN <<>> ELSE files[f]]
    /\ write_log' = [write_log EXCEPT ![conn_tasks[t].call].created = TRUE]
    /\ conn_tasks' = [conn_tasks EXCEPT ![t].pc = "message_id",
                                        ![t].file = Resolve(DestPath(t))]
    /\ UNCHANGED <<conn_vars, sessions, config_vars, main_vars, dest_map>>

\* the open fails: no such directory, or the path exists already
OpenFails(t) ==
    /\ conn_tasks[t].pc = "open"
    /\ IF Resolve(DestPath(t)) = None
       THEN WriteEmailReturns(t, "NotFound")
       ELSE /\ Exists(Resolve(DestPath(t))[1])
            /\ WriteEmailReturns(t, "AlreadyExists")
    /\ UNCHANGED <<conn_vars, sessions, config_vars, main_vars, dest_map, files>>

\* the bytes of the write_all call connection task t is at
Chunk(t) ==
    IF conn_tasks[t].pc = "message_id" THEN EmailOf(t).message_id
    ELSE IF conn_tasks[t].pc = "separator" THEN <<LF, LF>>
    ELSE EmailOf(t).raw

AfterChunk(pos) ==
    IF pos = "message_id" THEN "separator" ELSE IF pos = "separator" THEN "raw" ELSE "flush"

\* writer.write_all of the message id and of the separator: shorter than the
\* BufWriter's buffer, the bytes stay in it
WriteAll(t) ==
    /\ conn_tasks[t].pc \in {"message_id", "separator"}
    /\ conn_tasks' = [conn_tasks EXCEPT ![t].pc = AfterChunk(@), ![t].buf = @ \o Chunk(t)]
    /\ UNCHANGED <<conn_vars, sessions, config_vars, main_vars, dest_map, files, write_log>>

\* writer.write_all(email.raw): the bytes stay in the BufWriter, or the
\* BufWriter writes what it holds and them to the file
WriteAllRaw(t) ==
    /\ conn_tasks[t].pc = "raw"
    /\ \/ /\ conn_tasks' = [conn_tasks EXCEPT ![t].pc = AfterChunk(@),
                                              ![t].buf = @ \o Chunk(t)]
          /\ UNCHANGED files
       \/ /\ conn_tasks' = [conn_tasks EXCEPT ![t].pc = AfterChunk(@), ![t].buf = <<>>]
          /\ files' = [files EXCEPT ![conn_tasks[t].file[1]] = @ \o conn_tasks[t].buf \o Chunk(t)]
    /\ UNCHANGED <<conn_vars, sessions, config_vars, main_vars, dest_map, write_log>>

\* writer.flush, then Ok(())
Flush(t) ==
    /\ conn_tasks[t].pc = "flush"
    /\ files' = [files EXCEPT ![conn_tasks[t].file[1]] = @ \o conn_tasks[t].buf]
    /\ WriteEmailReturns(t, "Ok")
    /\ UNCHANGED <<conn_vars, sessions, config_vars, main_vars, dest_map>>

\* a write to the file fails, in write_all(email.raw) or in the flush: the
\* file keeps what reached it
WriteFails(t) ==
    /\ conn_tasks[t].pc \in {"raw", "flush"}
    /\ WriteEmailReturns(t, "StorageFull")
    /\ UNCHANGED <<conn_vars, sessions, config_vars, main_vars, dest_map, files>>

NextDispatch ==
    \/ \E t \in DOMAIN conn_tasks : Recv(t)
    \/ \E t \in DOMAIN conn_tasks : DispatchWrite(t)
    \/ \E t \in DOMAIN conn_tasks : DispatchWarn(t)
    \/ \E t \in DOMAIN conn_tasks : DispatchEnd(t)
    \/ \E t \in DOMAIN conn_tasks : OpenCreates(t)
    \/ \E t \in DOMAIN conn_tasks : OpenFails(t)
    \/ \E t \in DOMAIN conn_tasks : WriteAll(t)
    \/ \E t \in DOMAIN conn_tasks : WriteAllRaw(t)
    \/ \E t \in DOMAIN conn_tasks : Flush(t)
    \/ \E t \in DOMAIN conn_tasks : WriteFails(t)

SpecDispatch == InitDispatch /\ [][NextDispatch]_vars

(***************************************************************************)
(* One connection task from recv_mail to the end of its dispatch loop: the *)
(* session of handle_mail_comm, then the writes for the mail it returned.  *)
(* An earlier connection may have delivered a mail with the same id.       *)
(***************************************************************************)
EarlierMail == SmtpEmailNew(Some(A_X), <<B_Y>>, MidLine \o CRLF \o Cmd(<<"yo">>))

DeliverFiles ==
    {<<>>,
     [f \in {Push(SPOOL, EarlierMail.message_id)} |-> FileBytes(EarlierMail)]}

InitDeliver ==
    /\ listener \in {SmtpServerNew(p, t) : p \in Ports, t \in BOOLEAN}
    /\ pc = "recv_mail"
    /\ tls_active = FALSE
    /\ upgraded = FALSE
    /\ eof = FALSE
    /\ last_response = EMPTY_RESPONSE
    /\ state = "Idle"
    /\ mail_handler = MailHandlerNew(<<>>, InitialRes)
    /\ returned = None
    /\ io_error = "none"
    /\ lastCb = "none"
    /\ lastArg = None
    /\ dataEnds = 0
    /\ txTo = <<>>
    /\ plainTo = <<>>
    /\ reDataPhase = "none"
    /\ plainSent = FALSE
    /\ tlsSent = FALSE
    /\ flushed = FALSE
    /\ acked = 0
    /\ script = "start"
    /\ scriptFrom = None
    /\ scriptTo = None
    /\ scriptMid = None
    /\ sent = <<>>
    /\ main = [pc |-> "join", n_addrs |-> 0, addr_i |-> 0, smtp_servers |-> <<>>,
               bind_errs |-> {}, spawn_i |-> 0, exit_code |-> None]
    /\ server_tasks = <<>>
    /\ conn_tasks = <<ConnTask>>
    /\ dest_map = [a \in {B_Y} |-> FileDestinationNew(SPOOL).dest]
    /\ files \in DeliverFiles
    /\ write_log = <<>>
    /\ handshake = NoHandshake
    /\ mapping = NoMapping
    /\ sessions = <<>>

DeliverRecvBeforeShutdown(t) ==
    /\ pc = "shutdown"
    /\ conn_tasks[t].pc = "recv"
    /\ mail_handler.received_mail.kind = "Ok"
    /\ conn_tasks' = [conn_tasks EXCEPT ![t].received = mail_handler.received_mail,
                                        ![t].pc = "dispatch"]
    /\ UNCHANGED <<conn_vars, sessions, config_vars, main_vars, dest_map, files, write_log>>

\* server.recv_mail(..).await has returned: the match on its result
DeliverRecv(t) ==
    /\ pc = "done"
    /\ conn_tasks[t].pc = "recv"
    /\ conn_tasks' = [conn_tasks EXCEPT ![t].received = returned[1],
                                        ![t].pc = IF returned[1].kind = "Ok" THEN "dispatch"
                                                  ELSE "done"]
    /\ UNCHANGED <<conn_vars, sessions, config_vars, main_vars, dest_map, files, write_log>>

NextDeliver ==
    \/ RecvMailPlain
    \/ RecvMailTls
    \/ RecvMailTlsFail
    \/ Greeting
    \/ GreetingFail
    \/ ClientCommand
    \/ ClientData
    \/ ClientDataBareLf
    \/ ClientTerminator
    \/ ClientPartialEof
    \/ ClientEof
    \/ ReadFail
    \/ WriteResp
    \/ WriteFail
    \/ UpgradeTls
    \/ UpgradeTlsFail
    \/ Shutdown
    \/ ShutdownFail
    \/ \E t \in DOMAIN conn_tasks : DeliverRecv(t)
    \/ \E t \in DOMAIN conn_tasks : DispatchWrite(t)
    \/ \E t \in DOMAIN conn_tasks : DispatchWarn(t)
    \/ \E t \in DOMAIN conn_tasks : DispatchEnd(t)
    \/ \E t \in DOMAIN conn_tasks : OpenCreates(t)
    \/ \E t \in DOMAIN conn_tasks : OpenFails(t)
    \/ \E t \in DOMAIN conn_tasks : WriteAll(t)
    \/ \E t \in DOMAIN conn_tasks : WriteAllRaw(t)
    \/ \E t \in DOMAIN conn_tasks : Flush(t)
    \/ \E t \in DOMAIN conn_tasks : WriteFails(t)

SpecDeliver == InitDeliver /\ [][NextDeliver]_vars

(***************************************************************************)
(* config.rs: CertResolver, the certificate resolver of the TLS acceptor.  *)
(* A handshake hands it the client hello; without a certified key the      *)
(* handshake fails.                                                        *)
(***************************************************************************)
Domains == {"mx.x", "mx.y", "mx.z"}
CertifiedKeys == {"key1", "key2"}

\* CertResolver::new
CertResolverNew == <<>>

\* CertResolver::add_domain
add_domain(domain_cert_map, domain, cert) ==
    [d \in DOMAIN domain_cert_map \cup {domain} |->
        IF d = domain THEN cert ELSE domain_cert_map[d]]

resolveFirstOnMiss(domain_cert_map, client_hello) ==
    IF client_hello.server_name # None /\ client_hello.server_name[1] \in DOMAIN domain_cert_map
    THEN Some(domain_cert_map[client_hello.server_name[1]])
    ELSE IF DOMAIN domain_cert_map # {}
    THEN Some(domain_cert_map[CHOOSE d \in DOMAIN domain_cert_map : TRUE])
    ELSE None

\* CertResolver::resolve
resolve(domain_cert_map, client_hello) ==
    IF client_hello.server_name # None
    THEN IF client_hello.server_name[1] \in DOMAIN domain_cert_map
         THEN Some(domain_cert_map[client_hello.server_name[1]])
         ELSE None
    ELSE None

InitCert ==
    /\ ConnectionIdle
    /\ main = [pc |-> "join", n_addrs |-> 0, addr_i |-> 0, smtp_servers |-> <<>>,
               bind_errs |-> {}, spawn_i |-> 0, exit_code |-> None]
    /\ server_tasks = <<>>
    /\ conn_tasks = <<>>
    /\ dest_map = <<>>
    /\ files = <<>>
    /\ write_log = <<>>
    /\ handshake = [NoHandshake EXCEPT !.pc = "config"]
    /\ mapping = NoMapping
    /\ sessions = <<>>

\* TlsConfig::try_from: one more domain of the certificates section
AddDomain ==
    /\ handshake.pc = "config"
    /\ \E d \in Domains, k \in CertifiedKeys :
         /\ d \notin DOMAIN handshake.domain_cert_map
         /\ handshake' = [handshake EXCEPT
                             !.domain_cert_map = add_domain(@, d, k)]
    /\ UNCHANGED <<conn_vars, sessions, main_vars, dispatch_vars, mapping>>

\* a client hello arrives at the acceptor, with or without a server name
ClientHello ==
    /\ handshake.pc = "config"
    /\ \E n \in {None} \cup {Some(d) : d \in Domains \cup {"mx.w"}} :
         handshake' = [handshake EXCEPT !.pc = "hello", !.client_hello = [server_name |-> n]]
    /\ UNCHANGED <<conn_vars, sessions, main_vars, dispatch_vars, mapping>>

\* the acceptor asks the resolver for the certified key
ResolveCert ==
    /\ handshake.pc = "hello"
    /\ handshake' = [handshake EXCEPT
                        !.pc = "resolved",
                        !.resolved = resolve(handshake.domain_cert_map, handshake.client_hello)]
    /\ UNCHANGED <<conn_vars, sessions, main_vars, dispatch_vars, mapping>>

\* the handshake goes on with the key, or fails for want of one
HandshakeEnd ==
    /\ handshake.pc = "resolved"
    /\ \/ /\ handshake.resolved # None
          /\ handshake' = [handshake EXCEPT !.pc = "established"]
       \/ handshake' = [handshake EXCEPT !.pc = "failed"]
    /\ UNCHANGED <<conn_vars, sessions, main_vars, dispatch_vars, mapping>>

NextCert ==
    \/ AddDomain
    \/ ClientHello
    \/ ResolveCert
    \/ HandshakeEnd

SpecCert == InitCert /\ [][NextCert]_vars

(***************************************************************************)
(* config.rs: Config::load_mapping builds dest_map, one file destination   *)
(* per mapping section, from the section's dest_path or from default_path  *)
(* joined with the address.  The file system holds directories and may     *)
(* hold a file.                                                            *)
(***************************************************************************)
MappingKeys == {A_X, B_Y, BAD}

\* paths a configuration can name: directories, a file, nothing at all
MappingPaths == Dirs \cup {Push(SPOOL, <<"m1">>), Push(<<>>, <<"nodir">>)}

InitMapping ==
    /\ ConnectionIdle
    /\ main = [pc |-> "config", n_addrs |-> 0, addr_i |-> 0, smtp_servers |-> <<>>,
               bind_errs |-> {}, spawn_i |-> 0, exit_code |-> None]
    /\ server_tasks = <<>>
    /\ conn_tasks = <<>>
    /\ dest_map = <<>>
    /\ files \in DeliverFiles
    /\ write_log = <<>>
    /\ handshake = NoHandshake
    /\ mapping = [NoMapping EXCEPT !.pc = "load"]
    /\ sessions = <<>>

\* one iteration of the loop over the mapping sections: FileDestination::new
\* for the section's path; its Err ends load_mapping, its Ok is inserted
\* (HashMap::insert replaces the destination of an address already mapped)
LoadMappingFile ==
    /\ mapping.pc = "load"
    /\ \E k \in MappingKeys, path \in MappingPaths :
         /\ mapping' = [pc |-> IF FileDestinationNew(path).ok THEN "load" ELSE "failed",
                        addr_key |-> Some(k), path |-> Some(path),
                        result |-> Some(FileDestinationNew(path))]
         /\ dest_map' = IF FileDestinationNew(path).ok
                        THEN [a \in DOMAIN dest_map \cup {k} |->
                                 IF a = k THEN FileDestinationNew(path).dest ELSE dest_map[a]]
                        ELSE dest_map
    /\ UNCHANGED <<conn_vars, sessions, main_vars, conn_tasks, files, write_log, handshake>>

\* the loop is over: Ok(self)
LoadMappingEnd ==
    /\ mapping.pc = "load"
    /\ mapping' = [mapping EXCEPT !.pc = "loaded"]
    /\ UNCHANGED <<conn_vars, sessions, main_vars, dispatch_vars, handshake>>

NextMapping ==
    \/ LoadMappingFile
    \/ LoadMappingEnd

SpecMapping == InitMapping /\ [][NextMapping]_vars

(***************************************************************************)
(* main.rs: connection tasks run concurrently.  Each one has its own buf   *)
(* (main.rs 109) and, inside handle_mail_comm, its own res, mail_handler   *)
(* and session (mod.rs 79-81); the tasks of one listener share the         *)
(* SmtpServer, all tasks share the Config.  A task runs from one await to  *)
(* the next, so session.process runs undisturbed.                          *)
(***************************************************************************)
Mid2Line == Cmd(<<"Message-ID:", "m2">>)

\* what a client sends as its n-th line: the next line of a mail transaction,
\* a STARTTLS request or an early QUIT
TaskLines(n) ==
    CASE n = 0 -> {Cmd(<<"HELO">>)}
      [] n = 1 -> {Cmd(<<"MAIL">> \o A_X), Cmd(<<"MAIL">> \o B_Y), Cmd(<<"STARTTLS">>),
                   Cmd(<<"QUIT">>)}
      [] n = 2 -> {Cmd(<<"RCPT">> \o A_X), Cmd(<<"RCPT">> \o B_Y)}
      [] n = 3 -> {Cmd(<<"DATA">>)}
      [] n = 4 -> {MidLine, Mid2Line}
      [] n = 5 -> {Terminator}
      [] n = 6 -> {Cmd(<<"QUIT">>)}
      [] OTHER -> {}

\* two tasks run side by side, on the same listener or on two
Tasks == {1, 2}

\* a spawned connection task up to the greeting: its own buffer, slot, handler
TaskNew(server) ==
    [listener |-> server, state |-> "Idle",
     mail_handler |-> MailHandlerNew(<<>>, InitialRes),
     last_response |-> GREETING, lines |-> <<>>, returned |-> None]

InitIsolation ==
    /\ ConnectionIdle
    /\ main = [pc |-> "join", n_addrs |-> 0, addr_i |-> 0, smtp_servers |-> <<>>,
               bind_errs |-> {}, spawn_i |-> 0, exit_code |-> None]
    /\ server_tasks = <<>>
    /\ conn_tasks = <<>>
    /\ dest_map = <<>>
    /\ files = <<>>
    /\ write_log = <<>>
    /\ handshake = NoHandshake
    /\ mapping = NoMapping
    /\ \E t \in BOOLEAN, p \in Ports :
         sessions = [c \in Tasks |->
                        TaskNew(SmtpServerNew(IF c = 1 THEN 25 ELSE p, t))]

Other(c) == CHOOSE o \in DOMAIN sessions : o # c

TaskProcessSharedBuf(c, l) ==
    Process(sessions[c].state,
            IF sessions[c].mail_handler.msg_buf # None
               /\ sessions[Other(c)].mail_handler.msg_buf # None
            THEN [sessions[c].mail_handler EXCEPT
                      !.msg_buf = sessions[Other(c)].mail_handler.msg_buf]
            ELSE sessions[c].mail_handler,
            l, sessions[c].listener.starttls)

\* session.process on the task's own session and handler
TaskProcess(c, l) ==
    Process(sessions[c].state, sessions[c].mail_handler, l, sessions[c].listener.starttls)

\* one iteration of task c's loop: a line is read, processed, answered
TaskLine(c) ==
    /\ sessions[c].returned = None
    /\ sessions[c].last_response.action \notin {"Close", "Panic"}
    /\ \E l \in TaskLines(Len(sessions[c].lines)) :
         \E o \in {TaskProcess(c, l)} :
            sessions' = [sessions EXCEPT ![c] =
                           [@ EXCEPT !.state = o.state,
                                     !.mail_handler = o.h,
                                     !.last_response = o.resp,
                                     !.lines = Append(@, l)]]
    /\ UNCHANGED <<conn_vars, main_vars, dispatch_vars, config_vars>>

\* the loop is left after a Close response: shutdown, then res is returned
TaskReturn(c) ==
    /\ sessions[c].returned = None
    /\ sessions[c].last_response.action = "Close"
    /\ sessions' = [sessions EXCEPT ![c].returned = Some(sessions[c].mail_handler.received_mail)]
    /\ UNCHANGED <<conn_vars, main_vars, dispatch_vars, config_vars>>

\* an I/O operation of task c fails
TaskFail(c) ==
    /\ sessions[c].returned = None
    /\ sessions' = [sessions EXCEPT ![c].returned = Some(FromIoError)]
    /\ UNCHANGED <<conn_vars, main_vars, dispatch_vars, config_vars>>

NextIsolation ==
    \/ \E c \in DOMAIN sessions : TaskLine(c)
    \/ \E c \in DOMAIN sessions : TaskReturn(c)
    \/ \E c \in DOMAIN sessions : TaskFail(c)

SpecIsolation == InitIsolation /\ [][NextIsolation]_vars

(***************************************************************************)
(* Properties.                                                             *)
(***************************************************************************)
Slot == mail_handler.received_mail
EndsWith(b, s) == Len(b) >= Len(s) /\ SubSeq(b, Len(b) - Len(s) + 1, Len(b)) = s
\* the message M of a DATA section whose bytes are M followed by CRLF
MessageOf(wire) == SubSeq(wire, 1, Len(wire) - 2)
Finished == pc = "done" /\ io_error = "none"

\* C1: a client that sends HELO, MAIL FROM:<a>, RCPT TO:<b>, DATA, a message M
\* with a Message-ID header, the terminator and QUIT, and meets no I/O failure,
\* makes recv_mail return Ok with from = a, to = [b], message_id = the id of M's
\* Message-ID header and raw = M followed by one CRLF.
C1_RoundTrip ==
    (Finished /\ script = "quit") =>
        returned = Some(OkMail(scriptFrom, <<scriptTo[1]>>, scriptMid[1],
                               MessageOf(sent) \o CRLF))

C1_RoundTripWitness ==
    /\ Finished
    /\ script = "quit"
    /\ Len(SplitLines(sent)) >= 3
    /\ \E i \in 1..Len(sent) : sent[i] = "."

\* C2 (as claimed): whenever the result slot holds Ok, the mail has at least one
\* recipient, a non-empty message_id, and raw ends in CRLF.
C2_OkMailEndsCrLf ==
    Slot.kind = "Ok" =>
        /\ Len(Slot.to) >= 1
        /\ Slot.message_id # <<>>
        /\ EndsWith(Slot.raw, CRLF)

\* C2 (amended): whenever the result slot holds Ok, the mail has at least one
\* recipient, a non-empty message_id, and a non-empty raw that ends in LF; the
\* same holds of a mail recv_mail returns.
C2_OkMailShape ==
    /\ Slot.kind = "Ok" =>
         /\ Len(Slot.to) >= 1
         /\ Slot.message_id # <<>>
         /\ EndsWith(Slot.raw, <<LF>>)
    /\ (pc = "done" /\ returned[1].kind = "Ok") =>
         /\ Len(returned[1].to) >= 1
         /\ returned[1].message_id # <<>>
         /\ EndsWith(returned[1].raw, <<LF>>)

C2_OkMailShapeWitness ==
    /\ pc = "done"
    /\ returned[1].kind = "Ok"
    /\ ~EndsWith(returned[1].raw, CRLF)

\* C3 (as claimed): when data_end runs on buffered data that Email::parse
\* rejects, the result slot becomes Err(MailParsing) and the response is 554.
C3_ParseFailure554 ==
    [][(pc = "read" /\ lastCb' = "data_end" /\ ~EmailParse(BufOf(mail_handler)).ok) =>
          /\ mail_handler'.received_mail.kind = "Err"
          /\ mail_handler'.received_mail.err = "MailParsing"
          /\ last_response'.code = 554]_vars

\* C4 (as claimed): when the client ends a second DATA section after a first
\* successful DATA_END, the response is 503 and the result slot is Err(Smtp).
C4_SecondDataEnd503 ==
    [][(reDataPhase = "data" /\ reDataPhase' = "done") =>
          /\ last_response'.code = 503
          /\ mail_handler'.received_mail.kind = "Err"
          /\ mail_handler'.received_mail.err = "Smtp"]_vars

C6_MailCallback ==
    [][(pc = "read" /\ lastCb' = "mail") =>
          IF EmailAddressNew(lastArg'[1])
          THEN /\ mail_handler'.from = lastArg'
               /\ last_response'.code = 250
          ELSE /\ last_response'.code = 550
               /\ mail_handler'.from = mail_handler.from
               /\ mail_handler'.to = mail_handler.to
               /\ state' = "Hello"
               /\ state' = state
               /\ \A l \in {Cmd(<<"DATA">>)} \cup {Cmd(<<"RCPT">> \o m) : m \in RcptToBoxes} :
                    LET o == Process(state', mail_handler', l, listener.starttls)
                    IN IsError(o.resp) /\ o.cb = "none" /\ o.h = mail_handler'
                       /\ o.state = "Hello"]_vars

C6_MailCallbackWitness ==
    /\ lastCb = "mail"
    /\ last_response.code = 550
    /\ lastArg = Some(BAD)

\* C7: the rcpt callback, given a mailbox that parses, appends it to the end of
\* the current to list and answers 250; given any other, it answers 550 and
\* leaves to unchanged, and a valid RCPT sent next is appended with 250.
C7_RcptCallback ==
    [][(pc = "read" /\ lastCb' = "rcpt") =>
          IF EmailAddressNew(lastArg'[1])
          THEN /\ mail_handler'.to = Append(mail_handler.to, lastArg'[1])
               /\ last_response'.code = 250
          ELSE /\ last_response'.code = 550
               /\ mail_handler'.to = mail_handler.to
               /\ \A m \in {B_Y, A_X} :
                    LET o == Process(state', mail_handler', Cmd(<<"RCPT">> \o m),
                                     listener.starttls)
                    IN /\ o.cb = "rcpt"
                       /\ o.resp.code = 250
                       /\ o.h.to = Append(mail_handler.to, m)]_vars

C7_RcptCallbackWitness ==
    /\ lastCb = "rcpt"
    /\ last_response.code = 250
    /\ mail_handler.to = <<B_Y, A_X>>

C9_TlsMode ==
    /\ listener.starttls <=> (listener.tls_config /\ listener.port # 465)
    /\ listener.implicit_tls <=> (listener.tls_config /\ listener.port = 465)
    /\ ~(listener.starttls /\ listener.implicit_tls)
    /\ ~listener.tls_config => (~listener.starttls /\ ~listener.implicit_tls)

C9_TlsModeWitness ==
    /\ listener.port = 465
    /\ listener.tls_config
    /\ listener.implicit_tls
    /\ tlsSent

\* C10: on an implicit-TLS listener the TLS handshake has completed whenever the
\* handler writes the greeting or any later response, and nothing is ever
\* written to the plaintext stream.
C10_HandshakeFirst ==
    listener.implicit_tls =>
        /\ ~plainSent
        /\ pc \in {"greeting", "read", "write", "shutdown"} => tls_active

C10_HandshakeFirstWitness ==
    /\ listener.implicit_tls
    /\ tlsSent
    /\ last_response = GREETING
    /\ pc = "read"

C12_UpgradeLoop ==
    [][/\ (pc = "write" /\ pc' # "done") =>
            /\ pc' = "shutdown" <=> last_response.action = "Close"
            /\ pc' = "upgrade" <=> (last_response.action = "UpgradeTls" /\ ~upgraded)
            /\ ~upgraded => (pc' = "read" <=>
                                last_response.action \notin {"Close", "UpgradeTls"})
            /\ upgraded => (pc' = "read" <=> last_response.action # "Close")
       /\ pc = "upgrade" => ~upgraded
       /\ (pc = "upgrade" /\ pc' = "read") =>
            /\ upgraded' /\ tls_active'
            /\ state' = state
            /\ mail_handler' = mail_handler
            /\ last_response' = last_response
       /\ (pc' = "done" /\ io_error' = "none" /\ script' = "quit" /\ upgraded') =>
            returned' = Some(OkMail(scriptFrom', <<scriptTo'[1]>>, scriptMid'[1],
                                    MessageOf(sent') \o CRLF))]_vars

C12_UpgradeLoopWitness ==
    /\ Finished
    /\ script = "quit"
    /\ upgraded
    /\ plainSent
    /\ tlsSent
    /\ returned[1].kind = "Ok"


\* the bind loop has run to its end
AfterBind ==
    \/ main.pc \in {"setuid", "setgid", "spawn", "join"}
    \/ main.pc = "exit" /\ main.exit_code \in {Some(3), Some(4), Some(5)}

\* C13: a failed bind of one address leaves the other addresses their listener
\* (each address that bound gets its accept loop, in order), and startup exits
\* with code 3, with no accept loop, exactly when every bind failed.
C13_BindFailures ==
    /\ AfterBind =>
         /\ main.exit_code = Some(3) <=> main.bind_errs = 1..main.n_addrs
         /\ {main.smtp_servers[i] : i \in DOMAIN main.smtp_servers} =
                (1..main.n_addrs) \ main.bind_errs
    /\ main.exit_code = Some(3) => server_tasks = <<>>
    /\ server_tasks # <<>> => AfterBind
    /\ main.pc = "join" =>
         /\ Len(server_tasks) = Len(main.smtp_servers)
         /\ \A i \in DOMAIN server_tasks : server_tasks[i].addr = main.smtp_servers[i]
         /\ {server_tasks[i].addr : i \in DOMAIN server_tasks} =
                (1..main.n_addrs) \ main.bind_errs

C13_BindFailuresWitness ==
    /\ main.pc = "join"
    /\ main.bind_errs # {}
    /\ \E k \in DOMAIN server_tasks : server_tasks[k].spawned > 0

\* C14: the accept loop waits for no connection task: after each spawn the
\* listener's task is back at accept_conn, whether or not the tasks it spawned
\* ever finish.
C14_AcceptAgain ==
    \A k \in 1..MaxAddrs :
        (k \in DOMAIN server_tasks /\ server_tasks[k].pc \in {"spawn", "reap"})
            ~> (k \in DOMAIN server_tasks /\ server_tasks[k].pc = "accept")

C14_AcceptAgainWitness ==
    \E k \in DOMAIN server_tasks :
        /\ server_tasks[k].pc = "accept"
        /\ server_tasks[k].spawned = 2
        /\ server_tasks[k].running = {1, 2}

\* C15 (as claimed): an accept failure that is fatal ends the listener's task;
\* one that is not leaves it at accept_conn.
C15_FatalAcceptTerminates ==
    [][\A k \in DOMAIN server_tasks :
          (server_tasks[k].pc = "accept" /\ server_tasks'[k].last_accept # "ok"
              /\ server_tasks'[k] # server_tasks[k]) =>
             IF server_tasks'[k].last_accept = "fatal"
             THEN server_tasks'[k].pc = "terminated"
             ELSE server_tasks'[k].pc = "accept"]_vars

\* the write_email calls connection task t has made, in their order
CallsOf(t) == SelectSeq(write_log, LAMBDA e : e.task = t)

\* of the first n recipients those that have a destination, in their order
RECURSIVE Mapped(_, _)
Mapped(to, n) ==
    IF n = 0 THEN <<>>
    ELSE Mapped(to, n - 1) \o (IF to[n] \in DOMAIN dest_map THEN <<n>> ELSE <<>>)

\* the recipients connection task t is through with or at
Reached(t) ==
    IF conn_tasks[t].pc \in {"dispatch", "done"} THEN conn_tasks[t].i - 1 ELSE conn_tasks[t].i

\* C16: the recipients of an Ok(SmtpEmail) are gone through in the order of
\* email.to; each one that has a destination gets exactly one write_email call,
\* whether or not the write for an earlier one failed or an earlier one had no
\* destination; the task ends only after the last recipient.
C16_DispatchOrder ==
    \A t \in DOMAIN conn_tasks :
        conn_tasks[t].received.kind = "Ok" =>
            /\ [k \in 1..Len(CallsOf(t)) |-> CallsOf(t)[k].rcpt]
                   = Mapped(conn_tasks[t].received.to, Reached(t))
            /\ \A k \in 1..Len(CallsOf(t)) :
                   CallsOf(t)[k].addr = conn_tasks[t].received.to[CallsOf(t)[k].rcpt]
            /\ conn_tasks[t].pc = "done" =>
                   conn_tasks[t].i = Len(conn_tasks[t].received.to) + 1

C16_DispatchOrderWitness ==
    \E t \in DOMAIN conn_tasks :
        /\ conn_tasks[t].pc = "done"
        /\ Len(CallsOf(t)) = 2
        /\ CallsOf(t)[1].res \notin {"Ok", "pending"}
        /\ CallsOf(t)[2].res = "Ok"

\* C17: a connection whose recv_mail returned Err makes no write_email call,
\* and with an empty dest_map no write_email call is made and no file written.
C17_NoDispatch ==
    /\ \A t \in DOMAIN conn_tasks :
          conn_tasks[t].received.kind = "Err" =>
              /\ CallsOf(t) = <<>>
              /\ conn_tasks[t].pc \in {"recv", "done"}
    /\ DOMAIN dest_map = {} => (write_log = <<>> /\ DOMAIN files = {})

C17_NoDispatchWitness ==
    /\ DOMAIN dest_map = {}
    /\ \E t \in DOMAIN conn_tasks :
          conn_tasks[t].pc = "done" /\ conn_tasks[t].received.kind = "Err"
    /\ \E t \in DOMAIN conn_tasks :
          conn_tasks[t].pc = "done" /\ conn_tasks[t].received.kind = "Ok"

\* the email and the destination of the k-th write_email call
CallEmail(k) == conn_tasks[write_log[k].task].received
CallDest(k) == dest_map[write_log[k].addr]

\* the file base/<message_id>, the message id taken as a path below base
FileBelowBase(k) == Resolve(CallDest(k).base_path \o Components(CallEmail(k).message_id))

\* the file the k-th write_email call opens
FileOpened(k) == Resolve(Push(CallDest(k).base_path, CallEmail(k).message_id))

\* C18 (as claimed): after write_email returned Ok for email e the file
\* base/<e.message_id> exists and holds e.message_id, two LF, e.raw.
C18_FileAtBase ==
    \A k \in DOMAIN write_log :
        write_log[k].res = "Ok" =>
            /\ FileBelowBase(k) # None
            /\ FileBelowBase(k)[1] \in DOMAIN files
            /\ files[FileBelowBase(k)[1]] = FileBytes(CallEmail(k))

\* C19: write_email for a message id whose file exists already fails with
\* SysIo(AlreadyExists) and leaves every file as it is.
C19_NoOverwrite ==
    [][\A t \in DOMAIN conn_tasks :
          (/\ conn_tasks[t].pc = "open"
           /\ conn_tasks'[t].pc # "open"
           /\ Resolve(DestPath(t)) # None
           /\ Resolve(DestPath(t))[1] \in DOMAIN files) =>
              /\ write_log'[conn_tasks[t].call].res = "AlreadyExists"
              /\ ~write_log'[conn_tasks[t].call].created
              /\ files' = files]_vars

C19_NoOverwriteWitness ==
    \E k \in DOMAIN write_log :
        /\ write_log[k].res = "AlreadyExists"
        /\ FileOpened(k)[1] \in DOMAIN files
        /\ \E j \in DOMAIN write_log :
              /\ write_log[j].created
              /\ write_log[j].res = "Ok"
              /\ FileOpened(j) = FileOpened(k)
              /\ CallEmail(j).raw # CallEmail(k).raw
              /\ files[FileOpened(k)[1]] = FileBytes(CallEmail(j))

IsPrefix(a, b) == Len(a) <= Len(b) /\ SubSeq(b, 1, Len(a)) = a

\* two write_email calls of different connection tasks on the same destination
\* with the same message id, the later begun while the earlier was in progress,
\* both returned
Raced(j, k) ==
    /\ write_log[k].during = j
    /\ write_log[j].res # "pending"
    /\ write_log[k].res # "pending"

\* the call w created the file and the call l failed with AlreadyExists; the
\* file holds what w wrote: all of it when w returned Ok, never anything else
WonBy(w, l) ==
    /\ write_log[w].created
    /\ ~write_log[l].created
    /\ write_log[l].res = "AlreadyExists"
    /\ IsPrefix(files[FileOpened(w)[1]], FileBytes(CallEmail(w)))
    /\ write_log[w].res = "Ok" => files[FileOpened(w)[1]] = FileBytes(CallEmail(w))

C21_WritesAfterSession ==
    [][(write_log' # write_log \/ files' # files) =>
          /\ pc = "done"
          /\ io_error = "none"
          /\ returned # None
          /\ returned[1].kind = "Ok"
          /\ flushed
          /\ acked = 250
          /\ UNCHANGED conn_vars]_vars

C21_WritesAfterSessionWitness ==
    /\ pc = "done"
    /\ acked = 250
    /\ \E k \in DOMAIN write_log : write_log[k].res = "AlreadyExists"
    /\ \A t \in DOMAIN conn_tasks : conn_tasks[t].pc = "done"

\* C22 (as claimed): after a mail has been received a further MAIL, RCPT, DATA
\* cycle on the connection starts with from unset and to empty, and its DATA
\* command is accepted with the data buffer held and empty.
C22_SecondCycleAccepted ==
    [][/\ (lastCb' = "data_end" /\ pc' = "write" /\ pc = "read") =>
            /\ mail_handler'.from = None
            /\ mail_handler'.to = <<>>
       /\ (pc = "read" /\ pc' = "write" /\ lastCb' = "data_start"
              /\ mail_handler.received_mail.kind = "Ok") =>
            /\ last_response' = START_DATA
            /\ state' = "Data"
            /\ mail_handler'.msg_buf = Some(<<>>)]_vars

\* the bytes in the connection task's buffer as far as the handler tells them:
\* the buffer it holds, or the raw of the mail in the slot, which is a slice of
\* the whole buffer; None when the buffer was taken and no mail borrows it
DataBuffer(h) ==
    IF h.msg_buf # None THEN h.msg_buf
    ELSE IF h.received_mail.kind = "Ok" THEN Some(h.received_mail.raw)
    ELSE None

\* C23 (as claimed): the data buffer is empty whenever the DATA_START callback
\* is invoked.
C23_BufferEmptyAtDataStart ==
    [][(pc = "read" /\ pc' = "write" /\ lastCb' = "data_start"
           /\ DataBuffer(mail_handler) # None) =>
          DataBuffer(mail_handler)[1] = <<>>]_vars

\* C24: CertResolver::resolve returns a certified key only for a client hello
\* whose server_name is a key of the domain map, and then the key stored for
\* that name; without a server_name, or with one that is no key, it returns
\* none and the handshake fails.
C24_CertResolve ==
    handshake.pc \in {"resolved", "established", "failed"} =>
        /\ IF /\ handshake.client_hello.server_name # None
              /\ handshake.client_hello.server_name[1] \in DOMAIN handshake.domain_cert_map
           THEN handshake.resolved =
                    Some(handshake.domain_cert_map[handshake.client_hello.server_name[1]])
           ELSE handshake.resolved = None
        /\ handshake.pc = "established" => handshake.resolved # None

C24_CertResolveWitness ==
    /\ handshake.pc = "established"
    /\ handshake.client_hello.server_name = Some("mx.y")
    /\ DOMAIN handshake.domain_cert_map = {"mx.x", "mx.y"}
    /\ handshake.domain_cert_map["mx.x"] # handshake.domain_cert_map["mx.y"]
    /\ handshake.resolved = Some(handshake.domain_cert_map["mx.y"])

\* C25: FileDestination::new returns a destination only for a path that is a
\* directory when it is called; for any other path it returns Err(SysIo) of
\* kind NotFound at once and no destination comes to be.
C25_FileDestinationNew ==
    [][mapping' # mapping /\ mapping'.result # None =>
          IF mapping'.path[1] \in Dirs
          THEN /\ mapping'.result[1].ok
               /\ mapping'.result[1].dest.base_path = mapping'.path[1]
               /\ dest_map'[mapping'.addr_key[1]] = mapping'.result[1].dest
          ELSE /\ ~mapping'.result[1].ok
               /\ mapping'.result[1].err = "SysIo"
               /\ mapping'.result[1].kind = "NotFound"
               /\ mapping'.pc = "failed"
               /\ dest_map' = dest_map]_vars

C25_FileDestinationNewWitness ==
    /\ mapping.pc = "failed"
    /\ mapping.path = Some(Push(SPOOL, <<"m1">>))
    /\ mapping.path[1] \in DOMAIN files
    /\ mapping.result[1].kind = "NotFound"
    /\ DOMAIN dest_map = {A_X, B_Y}

\* C26: one connection is served half-duplex and in order: the greeting is
\* written and flushed before the first line is read; a line is read only when
\* everything written before is flushed, one session.process call answers it,
\* and that very answer is written and flushed, the session untouched, before
\* the loop reads again.
C26_HalfDuplex ==
    [][/\ (pc = "greeting" /\ pc' # "done") =>
            /\ pc' = "read" /\ flushed' /\ last_response' = GREETING
            /\ (plainSent' \/ tlsSent')
       /\ (pc = "read" /\ pc' # "done") =>
            /\ flushed /\ ~flushed'
            /\ pc' \in {"write", "panicked"}
       /\ (pc = "write" /\ pc' # "done") =>
            /\ ~flushed /\ flushed'
            /\ UNCHANGED session_vars
            /\ last_response.action # "NoReply" =>
                 IF tls_active THEN tlsSent' ELSE plainSent'
            /\ pc' = "read" => last_response.action \notin {"Close", "UpgradeTls"} \/ upgraded
       /\ pc' = "read" => flushed']_vars

C26_HalfDuplexWitness ==
    /\ pc = "read"
    /\ flushed
    /\ upgraded
    /\ lastCb = "data_end"
    /\ last_response = OK
    /\ plainSent /\ tlsSent

\* what a session in o is in after it has been sent the lines ls
RECURSIVE ReplayFrom(_, _, _)
ReplayFrom(o, ls, starttls) ==
    IF ls = <<>> THEN o
    ELSE CHOOSE r \in {ReplayFrom(n, Tail(ls), starttls) :
                          n \in {Process(o.state, o.h, Head(ls), starttls)}} : TRUE

\* what a session that has been sent the lines ls, and nothing else, is in
Replay(ls, starttls) ==
    ReplayFrom(Out("Idle", MailHandlerNew(<<>>, InitialRes), GREETING, "none"), ls, starttls)

C28_SlotFrame ==
    [][pc' # "done" =>
         /\ mail_handler'.received_mail # mail_handler.received_mail =>
               pc = "read" /\ lastCb' = "data_end"
         /\ (mail_handler.received_mail.kind = "Ok"
                /\ mail_handler'.received_mail.kind = "Ok") =>
               mail_handler'.received_mail = mail_handler.received_mail]_vars

C28_SlotFrameWitness ==
    /\ lastCb = "data_end"
    /\ pc = "read"
    /\ mail_handler.received_mail = Err("Smtp", "Received multiple DATA_END.")

\* C29: DATA_START on a handler that still holds its buffer leaves the buffer
\* empty, whatever it contained, and succeeds (the session answers 354 and
\* receives data); on a handler whose buffer was taken it answers 503, changes
\* nothing and no data is received.
C29_DataStart ==
    [][(pc = "read" /\ pc' = "write" /\ lastCb' = "data_start") =>
          IF mail_handler.msg_buf # None
          THEN /\ mail_handler' = [mail_handler EXCEPT !.msg_buf = Some(<<>>)]
               /\ last_response' = START_DATA
               /\ state' = "Data"
          ELSE /\ mail_handler' = mail_handler
               /\ last_response'.code = 503
               /\ last_response'.action = "Reply"
               /\ state' = state /\ state' # "Data"]_vars

C29_DataStartWitness ==
    /\ lastCb = "data_start"
    /\ lastArg = Some(MidLine)
    /\ mail_handler.msg_buf = Some(<<>>)
    /\ last_response = START_DATA
    /\ state = "Data"
    /\ pc = "read"

\* C30: when the cleanup loop of an accept-loop iteration is over, the
\* listener's conn_task_list holds no handle of a connection task that has
\* already finished, even if a task spawned earlier is still running.
C30_NoFinishedHandle ==
    [][\A k \in DOMAIN server_tasks :
          (server_tasks[k].pc = "reap" /\ server_tasks'[k].pc = "accept") =>
             \A i \in 1..Len(server_tasks'[k].conn_task_list) :
                server_tasks'[k].conn_task_list[i] \in server_tasks'[k].running]_vars

\* C31: a mail acknowledged with 250 at DATA_END reaches the dispatcher: once
\* the result slot holds Ok(SmtpEmail), the handler returns that Ok value
\* however the connection ends afterwards (an I/O error included).
C31_AckedMailReturned ==
    [][(mail_handler.received_mail.kind = "Ok" /\ acked = 250 /\ pc' = "done") =>
          returned' = Some(mail_handler.received_mail)]_vars

\* C32: the to list of an emitted SmtpEmail is the list of the recipients
\* accepted with 250 in the mail transaction that DATA ended, in order; what an
\* abandoned transaction (RSET, a new HELO) had accepted is not in it.
C32_ToOfTransaction ==
    [][(pc = "read" /\ lastCb' = "data_end" /\ mail_handler'.received_mail.kind = "Ok"
           /\ mail_handler.received_mail.kind # "Ok") =>
          mail_handler'.received_mail.to = txTo]_vars

\* C33: no recipient the handler held from before a STARTTLS upgrade is in the
\* to list of an SmtpEmail whose DATA was received after the upgrade.
C33_NoPlaintextEnvelope ==
    [][(pc = "read" /\ upgraded /\ lastCb' = "data_end"
           /\ mail_handler'.received_mail.kind = "Ok"
           /\ mail_handler.received_mail.kind # "Ok") =>
          \A i \in 1..Len(mail_handler'.received_mail.to) :
             \A j \in 1..Len(plainTo) :
                mail_handler'.received_mail.to[i] # plainTo[j]]_vars

\* C34: a session ends once the client has stopped sending: after read_line
\* has reported the end of the stream the handler eventually returns, also
\* when every write of the server keeps succeeding.
C34_EofTerminates == eof ~> pc = "done"

\* C35: every file write_email creates is a direct child of the base directory
\* of the destination it was called on, whatever the message id is.
C35_CreatedInBase ==
    \A k \in DOMAIN write_log :
        write_log[k].created =>
            /\ FileOpened(k) # None
            /\ FileOpened(k)[1] # <<>>
            /\ SubSeq(FileOpened(k)[1], 1, Len(FileOpened(k)[1]) - 1) = CallDest(k).base_path

\* C36: whatever the client sends, data_end runs at most once in a session and
\* only on a handler that holds the buffer and whose slot is the initial
\* Err(Smtp): it does not panic and takes neither its Ok(_) nor its other
\* Err(_) arm (it answers 250).
C36_DataEndOnce ==
    [][(pc = "read" /\ lastCb' = "data_end") =>
          /\ dataEnds = 0
          /\ mail_handler.msg_buf # None
          /\ mail_handler.received_mail = InitialRes
          /\ pc' # "panicked"
          /\ last_response' = OK]_vars

C36_DataEndOnceWitness ==
    /\ dataEnds = 1
    /\ lastCb = "data_start"
    /\ last_response.code = 503
    /\ state = "Rcpt"
    /\ mail_handler.msg_buf = None
    /\ mail_handler.received_mail.kind = "Err"
    /\ mail_handler.received_mail.err = "MailParsing"

\* C37: the TLS acceptor is there whenever it is used: an implicit-TLS listener
\* has a TLS configuration, a response with action UpgradeTls and the upgrade
\* that follows occur only on a listener with STARTTLS enabled, which has one
\* and is not on port 465, and no expect on tls_config panics.
C37_AcceptorPresent ==
    /\ listener.implicit_tls => listener.tls_config
    /\ last_response.action = "UpgradeTls" => listener.starttls
    /\ (pc = "upgrade" \/ upgraded) =>
          listener.starttls /\ listener.tls_config /\ listener.port # ImplicitTlsPort
    /\ tls_active => listener.tls_config
    /\ pc # "panicked"

C37_AcceptorPresentWitness ==
    /\ last_response = START_TLS
    /\ upgraded
    /\ tls_active
    /\ pc = "read"
    /\ listener.port = 25
====
